---------------------------- MODULE Spec2Model ----------------------------
(***************************************************************************)
(* A model of the constellation runtime core (src/src/lib.rs):             *)
(*   - typed channels: Sender<T> / Receiver<T> over the per-process        *)
(*     reactor (the reactor, module `channel`, is not part of the source   *)
(*     tree at hand; its mailbox is modelled from the specification);      *)
(*   - select / run;                                                       *)
(*   - the byte-stream adapters Write for &Sender<u8>, Read for            *)
(*     &Receiver<u8>;                                                      *)
(*   - spawn and the subprocess tail of init;                              *)
(*   - the bridge loop of native_bridge and the monitor's event path       *)
(*     (SpecBridge), and the events of a followed tree of processes from   *)
(*     the user process to the deploy formatter (SpecEvents), and the      *)
(*     same tree with nothing followed, run to its end under fair          *)
(*     scheduling (SpecTree, FairSpecTree);                                *)
(*   - parse_binary_size of constellation-internal/src/ext.rs, with u64    *)
(*     values kept as sequences of 16-bit limbs (SpecParse);               *)
(*   - the calls of the threads of one process into the library before     *)
(*     and after init, spawn followed step by step (SpecCalls);            *)
(*   - the monitor of one process with the input the bridge sends it and   *)
(*     the output of its child (SpecMonitor);                              *)
(*   - the readiness handshake of monitor_process (SpecReady);             *)
(*   - the inbound sockets of a monitor (SpecForward);                     *)
(*   - the descriptors of spawn_native up to execve (SpecChild);           *)
(*   - the reservoir Rand of constellation-internal/src/ext.rs alone       *)
(*     (SpecRand).                                                         *)
(* Each subsystem has a specification of its own over the shared           *)
(* variables; the variables of the other subsystems stay at their initial  *)
(* values.                                                                 *)
(***************************************************************************)
EXTENDS Integers, Sequences, FiniteSets, TLC

VARIABLES
    \* ---- channels (Spec, FairSpec) ----
    alive,      \* process -> "running" | "stopped"
    diag,       \* process -> the diagnostic of the panic that aborted it
    senders,    \* process -> remote pid -> number of live Sender handles
    receivers,  \* process -> remote pid -> number of live Receiver handles
    closedS,    \* process -> remote pids whose Sender has been dropped
    closedR,    \* process -> remote pids whose Receiver has been dropped
    sendq,      \* <<a, b>> -> frames a's reactor holds for b, not yet on the socket
    inbox,      \* <<a, b>> -> bytes from a that have reached b's reactor
    sent,       \* <<a, b>> -> the values passed to send on a's Sender to b
    got,        \* <<a, b>> -> the results recv returned on b's Receiver from a
    afterDead,  \* <<a, b>> -> NoSend; Pending once a has called send on its Sender
                \*   to b after b had stopped; then the result of a's next recv from b
    \* ---- select (SpecSelect) ----
    selHeld,    \* the Selectable tokens the caller holds, in order
    selReady,   \* the tokens whose channel operation can progress now
    selTokens,  \* token -> [kind, commits, calls, arg]: every Selectable created so
                \*   far, how often it was committed and its closure invoked, and
                \*   what the producer returned or the consumer was given
    selCalls,   \* number of select calls that have returned
    selRun,     \* the last call of run: [state, tokens, rounds, calls]: "none" |
                \*   "running" | "returned", the tokens passed, the select calls
                \*   it has made, and selCalls when it was called
    selIn,      \* token -> the result waiting for a ready selectable_recv
    selOut,     \* [token, value]: the values handed to peers by selectable_sends
    \* ---- byte streams (SpecBytes) ----
    bq,         \* bytes sent on the Sender<u8> and not yet received
    bend,       \* "open", or how the stream ended: "exited" (Sender dropped),
                \*   "error" (sender vanished), "deaf" (Receiver dropped)
    bwritten,   \* concatenation of the bytes write / write_all reported as written
    bread,      \* concatenation of the bytes read / read_exact returned
    blost,      \* bytes a failed read_exact took before the channel error
    bret,       \* the result of the last write / read call
    \* ---- spawn and init (SpecSpawn) ----
    sdeployed,  \* DEPLOYED: the tree runs under the fabric
    sstage,     \* process -> "unborn" | "exec" | "main" | "start" | "exited"
    sargfd,     \* process -> what is left to read on ARG_FD
    senv,       \* process -> CONSTELLATION_RESOURCES is in the environment
    sbridge,    \* process -> BRIDGE, the bridge pid init published
    sforks,     \* [proc, pid]: the bridges forked, by whose init and with what pid
    sruns,      \* the closure invocations so far: [closure, proc, arg]
    smain,      \* process -> the body of user main after init has run
    sexit,      \* process -> exit code (-1 while it has none)
    scalls,     \* the spawn calls so far: [caller, closure, child]
    \* ---- bridge and monitors (SpecBridge) ----
    uproc,      \* instance -> "absent" | "unborn" | "running" | "exited": the user
                \*   process
    uport,      \* instance -> port of its listener, i.e. of its pid
    ustatus,    \* instance -> the wait status of the user process
    upipe,      \* instance -> fd -> the bytes written to stdout / stderr, not yet read
    ufwd,       \* instance -> fd -> "open" | "done": the forward_fd thread
    nOut,       \* bytes the user processes have written so far
    monpipe,    \* instance -> events written to MONITOR_FD, not yet forwarded
    mon,        \* instance -> "none" | "running" | "exit_sent" | "acked" |
                \*   "terminated": the monitor
    msent,      \* followed instance -> the events its monitor has sent to the bridge
    mq,         \* port -> events in flight from the monitor at that pid to the bridge
    processes,  \* the bridge's list of live processes (their pids' ports)
    exit_code,  \* the bridge's aggregate ExitStatus
    bout,       \* the bridge's output: [from, event], the DeployOutputEvents written
                \*   for followed instances and, for each, the instance whose monitor
                \*   sent its source
    bridge,     \* "running" | "exited" | "panicked"
    bridgeCode, \* the status the bridge process ended with
    nAdded,     \* how many processes the bridge has added to its list
    nExits,     \* how many Exit events the bridge has processed
    \* ---- parse_binary_size (SpecParse) ----
    pinput,     \* the string passed to parse_binary_size
    presult,    \* what the call returned, or that it panicked
    \* ---- calls into the library (SpecCalls) ----
    cinit,      \* init has run: REACTOR, DEPLOYED, RESOURCES and BRIDGE are set
    cdeployed,  \* the process runs under the fabric
    clistener,  \* LISTENER_FD is a listening socket
    cends,      \* <<kind, remote>>: the endpoints registered with the reactor
    cstate,     \* "running" | "aborted"
    cdiag,      \* the diagnostic of the panic that ended the process
    clast,      \* [n, fn, arg]: the last call made and how many were made
    cmutex,     \* SCHEDULER: the thread that holds it, 0 if none
    tpc,        \* thread -> where it is in spawn
    tcall,      \* thread -> the number of its spawn call
    csched,     \* [thread, call, part]: what has been written to SCHEDULER_FD
    cmon,       \* [thread, call, part, pid]: what has been written to MONITOR_FD
    cforks,     \* number of forks
    tport,      \* thread -> the port of the listener of the process it spawns
    ckids,      \* [call, port]: the listeners handed to forked children
    crets,      \* [thread, call, pid]: the pids spawn has returned
    \* ---- the input path of a monitor (SpecMonitor) ----
    bsent,      \* instance -> the ProcessInputEvents the bridge has sent to it
    binq,       \* instance -> those not yet received by the monitor
    relay,      \* instance -> thread monitor-bridge-to-channel:
                \*   "running" | "ended" | "panicked"
    stdinT,     \* instance -> thread monitor-forward_input_fd: "running" | "ended"
    spending,   \* instance -> the Input that thread has taken and not yet written
    ustdin,     \* instance -> the bytes written to the process's standard input
    mkilled,    \* instance -> the monitor has handled a Kill
    mbuild,     \* what a panic does in this build: "unwind" | "abort"
    \* ---- the readiness handshake of monitor_process (SpecReady) ----
    rmode,      \* [deployed, subprocess]: how the process was started
    mpc,        \* how many of its steps the monitor has done since the fork
    upc,        \* how many of its steps the user process has done since the fork
    rwriters,   \* who holds the write end of the readiness pipe open
    \* ---- inbound sockets of a monitor (SpecForward) ----
    fkept,      \* the inbound sockets the monitor has kept, in the order accepted
    fgiven,     \* the inbound sockets handed to the socket forwardee, in that order
    \* ---- the descriptors of a native spawn (SpecChild) ----
    kfds,       \* descriptor -> what it refers to, in the process at that position
    kparent,    \* the descriptors of the parent at the fork
    kpc,        \* the position in spawn_native, of the parent up to the fork and of the child after it
    kvalgrind,  \* is_valgrind()
    klistener,  \* process_listener
    karg,       \* arg.as_raw_fd()
    koff,       \* the offset of the payload file
    kdir,       \* the descriptor of the directory FdIter reads, NoFd if none
    klast,      \* the last descriptor FdIter gave
    kops,       \* the operations of the child since the fork, in order
    \* ---- a reservoir Rand (SpecRand) ----
    rand,       \* the Rand: [res, count], res 0 for None
    rpushed,    \* the items pushed, in order
    rgot        \* <<>>, or <<res>> once get has been called

chanVars == <<alive, diag, senders, receivers, closedS, closedR,
              sendq, inbox, sent, got, afterDead>>

selVars == <<selHeld, selReady, selTokens, selCalls, selRun, selIn, selOut>>

byteVars == <<bq, bend, bwritten, bread, blost, bret>>

spawnVars == <<sdeployed, sstage, sargfd, senv, sbridge, sforks, sruns, smain, sexit,
               scalls>>

bridgeVars == <<uproc, uport, ustatus, upipe, ufwd, nOut, monpipe, mon, msent, mq,
                processes, exit_code, bout, bridge, bridgeCode, nAdded, nExits>>

parseVars == <<pinput, presult>>

callVars == <<cinit, cdeployed, clistener, cends, cstate, cdiag, clast, cmutex, tpc,
              tcall, csched, cmon, cforks, tport, ckids, crets>>

inputVars == <<bsent, binq, relay, stdinT, spending, ustdin, mkilled, mbuild>>

readyVars == <<rmode, mpc, upc, rwriters>>

forwardVars == <<fkept, fgiven>>

childVars == <<kfds, kparent, kpc, kvalgrind, klistener, karg, koff, kdir, klast, kops>>

randVars == <<rand, rpushed, rgot>>

vars == <<chanVars, selVars, byteVars, spawnVars, bridgeVars, parseVars, callVars,
          inputVars, readyVars, forwardVars, childVars, randVars>>

\* what the actions of one subsystem leave alone
nonChanVars == <<selVars, byteVars, spawnVars, bridgeVars, parseVars, callVars,
    inputVars, readyVars, forwardVars, childVars, randVars>>

nonSelVars == <<chanVars, byteVars, spawnVars, bridgeVars, parseVars, callVars,
    inputVars, readyVars, forwardVars, childVars, randVars>>

nonByteVars == <<chanVars, selVars, spawnVars, bridgeVars, parseVars, callVars,
    inputVars, readyVars, forwardVars, childVars, randVars>>

nonSpawnVars == <<chanVars, selVars, byteVars, bridgeVars, parseVars, callVars,
    inputVars, readyVars, forwardVars, childVars, randVars>>

nonBridgeVars == <<chanVars, selVars, byteVars, spawnVars, parseVars, callVars,
    inputVars, readyVars, forwardVars, childVars, randVars>>

nonParseVars == <<chanVars, selVars, byteVars, spawnVars, bridgeVars, callVars,
    inputVars, readyVars, forwardVars, childVars, randVars>>

\* what neither the bridge and the monitors nor the input path touch
nonMonitorVars == <<chanVars, selVars, byteVars, spawnVars, parseVars, callVars,
    readyVars, forwardVars, childVars, randVars>>

nonCallVars == <<chanVars, selVars, byteVars, spawnVars, bridgeVars, parseVars,
    inputVars, readyVars, forwardVars, childVars, randVars>>

nonRandVars == <<chanVars, selVars, byteVars, spawnVars, bridgeVars, parseVars,
    callVars, inputVars, readyVars, forwardVars, childVars>>

nonChildVars == <<chanVars, selVars, byteVars, spawnVars, bridgeVars, parseVars,
    callVars, inputVars, readyVars, forwardVars, randVars>>

nonForwardVars == <<chanVars, selVars, byteVars, spawnVars, bridgeVars, parseVars,
    callVars, inputVars, readyVars, childVars, randVars>>

nonReadyVars == <<chanVars, selVars, byteVars, spawnVars, bridgeVars, parseVars,
    callVars, inputVars, forwardVars, childVars, randVars>>

-----------------------------------------------------------------------------
(* Bounds of the model.                                                    *)

MaxSends == 2
MaxVal == 2
MaxTokens == 3
MaxInsts == 3
MaxPorts == 3
MaxBuf == 3
MaxStream == 4
MaxCalls == 3
MaxOut == 1
MaxTree == 2
MaxThreads == 2
MaxLibCalls == 4
MaxIn == 2
MaxConns == 3
MaxFd == 10
MaxPushes == 3

\* The two processes of a channel pair.
Procs == {1, 2}
Values == 0 .. MaxVal
Pairs == {pr \in Procs \X Procs : pr[1] # pr[2]}
AllPairs == Procs \X Procs

-----------------------------------------------------------------------------
(* Pid: (ip, port); equality is structural.  Every process of the model    *)
(* listens on the loopback address, its port standing for the listener's.  *)

Pid(ip, port) == [ip |-> ip, port |-> port]

PidOf(p) == Pid("127.0.0.1", p)

Pids == {PidOf(p) : p \in Procs}

ProcOf(pid) == CHOOSE p \in Procs : PidOf(p) = pid

-----------------------------------------------------------------------------
(* Codec and wire framing: a frame is a length followed by that many       *)
(* payload bytes; length 0 is the end-of-stream marker.                    *)

RECURSIVE Serialize(_)
Serialize(v) == IF v < 2 THEN <<v>> ELSE <<v % 2>> \o Serialize(v \div 2)

RECURSIVE Deserialize(_)
Deserialize(bytes) ==
    IF bytes = <<>> THEN 0
    ELSE Head(bytes) + 2 * Deserialize(Tail(bytes))

Frame(payload) == <<Len(payload)>> \o payload

EndOfStream == <<0>>

FrameLen(bytes) == bytes[1]

FramePayload(bytes) == SubSeq(bytes, 2, 1 + FrameLen(bytes))

FrameRest(bytes) == SubSeq(bytes, 2 + FrameLen(bytes), Len(bytes))

CompleteFrame(bytes) == bytes # <<>> /\ Len(bytes) >= 1 + FrameLen(bytes)

-----------------------------------------------------------------------------
(* ChannelError and the results of recv.                                   *)

Ok(v) == <<"Ok", v>>

Exited == <<"Err", "Exited">>

Error == <<"Err", "Error">>

IsOk(r) == r[1] = "Ok"

\* the values of afterDead that are not a result of recv
NoSend == <<"none">>

Pending == <<"pending">>

(* The panic diagnostics of lib.rs.                                        *)
DiagNone == "none"

DiagSelfSender == "Sender::new() called with process's own pid"

DiagSelfReceiver == "Receiver::new() called with process's own pid"

DiagDupSender == "Sender::new() called when a Sender to this pid already exists"

(* Receiver::new reports a duplicate Receiver with the Sender's text.      *)
DiagDupReceiver == DiagDupSender

RECURSIVE SumLen(_, _)
SumLen(f, S) ==
    IF S = {} THEN 0
    ELSE LET x == CHOOSE y \in S : TRUE
         IN  Len(f[x]) + SumLen(f, S \ {x})

Running(p) == alive[p] = "running"

-----------------------------------------------------------------------------
(* The reactor's mailbox, as the channel layer sees it.                    *)

\* sender_register(remote): None when a Sender to remote is already live.
SenderRegister(p, remote) == senders[p][remote] = 0

\* recv_register(remote): None when a Receiver from remote is already live.
ReceiverRegister(p, remote) == receivers[p][remote] = 0

\* enqueue_send: the serialized value, framed, joins the peer's send queue.
EnqueueSend(q, v) == Append(q, Frame(Serialize(v)))

\* dequeue_recv is possible: a whole frame has arrived, or the peer is gone.
RecvReady(a, b) == CompleteFrame(inbox[<<a, b>>]) \/ ~Running(a)

\* dequeue_recv(remote) -> bytes | Closed | Error
DequeueRecv(a, b) ==
    LET buf == inbox[<<a, b>>]
    IN  IF CompleteFrame(buf)
        THEN IF FrameLen(buf) = 0
             THEN Exited
             ELSE Ok(Deserialize(FramePayload(buf)))
        ELSE Error

\* what dequeue_recv leaves in the inbound buffer: the end-of-stream marker stays
DequeueRest(a, b) ==
    LET buf == inbox[<<a, b>>]
    IN  IF CompleteFrame(buf) /\ FrameLen(buf) > 0 THEN FrameRest(buf) ELSE buf

\* The process is gone: its reactor and every handle it held are gone with it.
Stop(p) ==
    /\ alive' = [alive EXCEPT ![p] = "stopped"]
    /\ senders' = [senders EXCEPT ![p] = [r \in Pids |-> 0]]
    /\ receivers' = [receivers EXCEPT ![p] = [r \in Pids |-> 0]]
    /\ closedR' = [closedR EXCEPT ![p] = {}]
    /\ UNCHANGED closedS

\* the process stops with a panic
Panic(p, d) ==
    /\ Stop(p)
    /\ diag' = [diag EXCEPT ![p] = d]

\* recv results as the receiver's history keeps them: a channel error that
\* recv returns again is not recorded twice
Record(history, r) ==
    IF history # <<>> /\ ~IsOk(r) /\ history[Len(history)] = r
    THEN history
    ELSE Append(history, r)

-----------------------------------------------------------------------------
(* Sender<T>                                                               *)

\* SenderNew with the reactor's refusal ignored: the second handle shares the
\* registration of the first.
SenderNewShared(p, remote) ==
    /\ Running(p)
    /\ remote \notin closedS[p]
    /\ IF remote = PidOf(p)
       THEN Panic(p, DiagSelfSender)
       ELSE /\ senders' = [senders EXCEPT ![p][remote] = @ + 1]
            /\ UNCHANGED <<alive, diag, receivers, closedS, closedR>>
    /\ UNCHANGED nonChanVars
    /\ UNCHANGED <<sendq, inbox, sent, got, afterDead>>

\* SenderNew without the comparison of remote with pid().
SenderNewNoSelfCheck(p, remote) ==
    /\ Running(p)
    /\ remote \notin closedS[p]
    /\ IF SenderRegister(p, remote)
       THEN /\ senders' = [senders EXCEPT ![p][remote] = 1]
            /\ UNCHANGED <<alive, diag, receivers, closedS, closedR>>
       ELSE Panic(p, DiagDupSender)
    /\ UNCHANGED nonChanVars
    /\ UNCHANGED <<sendq, inbox, sent, got, afterDead>>

SenderNew(p, remote) ==
    /\ Running(p)
    /\ remote \notin closedS[p]
    /\ IF remote = PidOf(p)
       THEN Panic(p, DiagSelfSender)
       ELSE IF SenderRegister(p, remote)
            THEN /\ senders' = [senders EXCEPT ![p][remote] = 1]
                 /\ UNCHANGED <<alive, diag, receivers, closedS, closedR>>
            ELSE Panic(p, DiagDupSender)
    /\ UNCHANGED nonChanVars
    /\ UNCHANGED <<sendq, inbox, sent, got, afterDead>>

\* SenderSend submitting the value twice.
SenderSendTwice(p, remote, v) ==
    LET b == ProcOf(remote)
    IN  /\ Running(p)
        /\ senders[p][remote] = 1
        /\ sendq[<<p, b>>] = <<>>
        /\ SumLen(sent, Pairs) < MaxSends
        /\ sent' = [sent EXCEPT ![<<p, b>>] = Append(@, v)]
        /\ IF Running(b)
           THEN /\ sendq' = [sendq EXCEPT ![<<p, b>>] = EnqueueSend(EnqueueSend(@, v), v)]
                /\ UNCHANGED afterDead
           ELSE /\ afterDead' = [afterDead EXCEPT ![<<p, b>>] =
                                    IF @ = NoSend THEN Pending ELSE @]
                /\ UNCHANGED sendq
        /\ UNCHANGED nonChanVars
        /\ UNCHANGED <<alive, diag, senders, receivers, closedS, closedR, inbox, got>>

\* Blocking send: the caller is parked until the frame is on the socket, so a
\* Sender has at most one frame waiting.  send returns no value.
SenderSend(p, remote, v) ==
    LET b == ProcOf(remote)
    IN  /\ Running(p)
        /\ senders[p][remote] = 1
        /\ sendq[<<p, b>>] = <<>>
        /\ SumLen(sent, Pairs) < MaxSends
        /\ sent' = [sent EXCEPT ![<<p, b>>] = Append(@, v)]
        /\ IF Running(b)
           THEN /\ sendq' = [sendq EXCEPT ![<<p, b>>] = EnqueueSend(@, v)]
                /\ UNCHANGED afterDead
           ELSE /\ afterDead' = [afterDead EXCEPT ![<<p, b>>] =
                                    IF @ = NoSend THEN Pending ELSE @]
                /\ UNCHANGED sendq
        /\ UNCHANGED nonChanVars
        /\ UNCHANGED <<alive, diag, senders, receivers, closedS, closedR, inbox, got>>

\* SenderDrop that unregisters without the end-of-stream marker.
SenderDropNoMarker(p, remote) ==
    LET b == ProcOf(remote)
    IN  /\ Running(p)
        /\ senders[p][remote] = 1
        /\ sendq[<<p, b>>] = <<>>
        /\ senders' = [senders EXCEPT ![p][remote] = 0]
        /\ closedS' = [closedS EXCEPT ![p] = @ \cup {remote}]
        /\ UNCHANGED nonChanVars
        /\ UNCHANGED <<alive, diag, receivers, closedR, sendq, inbox, sent, got, afterDead>>

\* Drop: once the sends made through the handle are on the socket, the
\* end-of-stream marker follows them and the endpoint is unregistered.
SenderDrop(p, remote) ==
    LET b == ProcOf(remote)
    IN  /\ Running(p)
        /\ senders[p][remote] = 1
        /\ sendq[<<p, b>>] = <<>>
        /\ senders' = [senders EXCEPT ![p][remote] = 0]
        /\ closedS' = [closedS EXCEPT ![p] = @ \cup {remote}]
        /\ inbox' = IF Running(b)
                    THEN [inbox EXCEPT ![<<p, b>>] = @ \o EndOfStream]
                    ELSE inbox
        /\ UNCHANGED nonChanVars
        /\ UNCHANGED <<alive, diag, receivers, closedR, sendq, sent, got, afterDead>>

-----------------------------------------------------------------------------
(* Receiver<T>                                                             *)

ReceiverNew(p, remote) ==
    /\ Running(p)
    /\ remote \notin closedR[p]
    /\ IF remote = PidOf(p)
       THEN Panic(p, DiagSelfReceiver)
       ELSE IF ReceiverRegister(p, remote)
            THEN /\ receivers' = [receivers EXCEPT ![p][remote] = 1]
                 /\ UNCHANGED <<alive, diag, senders, closedS, closedR>>
            ELSE Panic(p, DiagDupReceiver)
    /\ UNCHANGED nonChanVars
    /\ UNCHANGED <<sendq, inbox, sent, got, afterDead>>

\* ReceiverRecv reporting Error as soon as the peer is gone, whatever has arrived.
ReceiverRecvPeerGone(p, remote) ==
    LET a == ProcOf(remote)
        r == IF Running(a) THEN DequeueRecv(a, p) ELSE Error
    IN  /\ Running(p)
        /\ receivers[p][remote] = 1
        /\ RecvReady(a, p)
        /\ got' = [got EXCEPT ![<<a, p>>] = Record(@, r)]
        /\ inbox' = [inbox EXCEPT ![<<a, p>>] =
                        IF Running(a) THEN DequeueRest(a, p) ELSE @]
        /\ afterDead' = [afterDead EXCEPT ![<<p, a>>] = IF @ = Pending THEN r ELSE @]
        /\ UNCHANGED nonChanVars
        /\ UNCHANGED <<alive, diag, senders, receivers, closedS, closedR, sendq, sent>>

\* Blocking recv: parked until a frame has arrived or the peer is gone.
ReceiverRecv(p, remote) ==
    LET a == ProcOf(remote)
    IN  /\ Running(p)
        /\ receivers[p][remote] = 1
        /\ RecvReady(a, p)
        /\ got' = [got EXCEPT ![<<a, p>>] = Record(@, DequeueRecv(a, p))]
        /\ inbox' = [inbox EXCEPT ![<<a, p>>] = DequeueRest(a, p)]
        /\ afterDead' = [afterDead EXCEPT ![<<p, a>>] =
                            IF @ = Pending THEN DequeueRecv(a, p) ELSE @]
        /\ UNCHANGED nonChanVars
        /\ UNCHANGED <<alive, diag, senders, receivers, closedS, closedR, sendq, sent>>

ReceiverDrop(p, remote) ==
    /\ Running(p)
    /\ receivers[p][remote] = 1
    /\ receivers' = [receivers EXCEPT ![p][remote] = 0]
    /\ closedR' = [closedR EXCEPT ![p] = @ \cup {remote}]
    /\ UNCHANGED nonChanVars
    /\ UNCHANGED <<alive, diag, senders, closedS, sendq, inbox, sent, got, afterDead>>

-----------------------------------------------------------------------------
(* The reactor thread and the end of a process.                            *)

\* The reactor writes the head of a peer's send queue to the socket; bytes
\* written to a peer that is gone are lost.
ReactorWrite(a, b) ==
    /\ Running(a)
    /\ sendq[<<a, b>>] # <<>>
    /\ sendq' = [sendq EXCEPT ![<<a, b>>] = Tail(@)]
    /\ inbox' = IF Running(b)
                THEN [inbox EXCEPT ![<<a, b>>] = @ \o Head(sendq[<<a, b>>])]
                ELSE inbox
    /\ UNCHANGED nonChanVars
    /\ UNCHANGED <<alive, diag, senders, receivers, closedS, closedR,
                   sent, got, afterDead>>

RECURSIVE Flatten(_)
Flatten(frames) ==
    IF frames = <<>> THEN <<>> ELSE Head(frames) \o Flatten(Tail(frames))

\* process::exit: the at-exit hook drops the reactor handle, which flushes the
\* send queues and closes every peer connection.
ProcessExit(p) ==
    /\ Running(p)
    /\ Stop(p)
    /\ inbox' = [pr \in AllPairs |->
                    IF pr[1] = p /\ Running(pr[2])
                    THEN inbox[pr] \o Flatten(sendq[pr])
                    ELSE inbox[pr]]
    /\ sendq' = [pr \in AllPairs |-> IF pr[1] = p THEN <<>> ELSE sendq[pr]]
    /\ UNCHANGED nonChanVars
    /\ UNCHANGED <<diag, sent, got, afterDead>>

\* The process is killed: nothing is flushed.
ProcessKill(p) ==
    /\ Running(p)
    /\ Stop(p)
    /\ sendq' = [pr \in AllPairs |-> IF pr[1] = p THEN <<>> ELSE sendq[pr]]
    /\ UNCHANGED nonChanVars
    /\ UNCHANGED <<diag, inbox, sent, got, afterDead>>

-----------------------------------------------------------------------------

\* no result waits for a token; its closure has not been invoked
NoArg == <<"none">>

\* what the producer of a selectable_send returned
Produced(v) == <<"value", v>>

\* The other subsystems at rest.
SelIdle ==
    /\ selHeld = <<>>
    /\ selReady = {}
    /\ selTokens = <<>>
    /\ selCalls = 0
    /\ selRun = [state |-> "none", tokens |-> <<>>, rounds |-> 0, calls |-> 0]
    /\ selIn = [t \in 1 .. MaxTokens |-> NoArg]
    /\ selOut = <<>>

BytesIdle ==
    /\ bq = <<>>
    /\ bend = "open"
    /\ bwritten = <<>>
    /\ bread = <<>>
    /\ blost = <<>>
    /\ bret = [op |-> "none", err |-> "none", n |-> 0]

SpawnIdle ==
    /\ sdeployed = FALSE
    /\ sstage = <<>>
    /\ sargfd = <<>>
    /\ senv = <<>>
    /\ sbridge = <<>>
    /\ sforks = {}
    /\ sruns = <<>>
    /\ smain = <<>>
    /\ sexit = <<>>
    /\ scalls = <<>>

BridgeIdle ==
    /\ uproc = <<>>
    /\ uport = <<>>
    /\ ustatus = <<>>
    /\ upipe = <<>>
    /\ ufwd = <<>>
    /\ nOut = 0
    /\ monpipe = <<>>
    /\ mon = <<>>
    /\ msent = <<>>
    /\ mq = <<>>
    /\ processes = <<>>
    /\ exit_code = <<"Success">>
    /\ bout = <<>>
    /\ bridge = "running"
    /\ bridgeCode = <<"none">>
    /\ nAdded = 0
    /\ nExits = 0

ReadyIdle ==
    /\ rmode = [deployed |-> FALSE, subprocess |-> FALSE]
    /\ mpc = 0
    /\ upc = 0
    /\ rwriters = {}

ForwardIdle ==
    /\ fkept = <<>>
    /\ fgiven = <<>>

ChildIdle ==
    /\ kfds = <<>>
    /\ kparent = <<>>
    /\ kpc = "idle"
    /\ kvalgrind = FALSE
    /\ klistener = 0
    /\ karg = 0
    /\ koff = 0
    /\ kdir = 0
    /\ klast = 0
    /\ kops = <<>>

RandIdle ==
    /\ rand = [res |-> 0, count |-> 0]
    /\ rpushed = <<>>
    /\ rgot = <<>>

InputIdle ==
    /\ bsent = <<>>
    /\ binq = <<>>
    /\ relay = <<>>
    /\ stdinT = <<>>
    /\ spending = <<>>
    /\ ustdin = <<>>
    /\ mkilled = <<>>
    /\ mbuild = "unwind"

CallsIdle ==
    /\ cinit = FALSE
    /\ cdeployed = FALSE
    /\ clistener = FALSE
    /\ cends = {}
    /\ cstate = "running"
    /\ cdiag = "none"
    /\ clast = [n |-> 0, fn |-> "none", arg |-> "none"]
    /\ cmutex = 0
    /\ tpc = <<>>
    /\ tcall = <<>>
    /\ csched = <<>>
    /\ cmon = <<>>
    /\ cforks = 0
    /\ tport = <<>>
    /\ ckids = <<>>
    /\ crets = <<>>

ParseIdle ==
    /\ pinput = <<>>
    /\ presult = <<"none">>

ChanIdle ==
    /\ alive = <<>>
    /\ diag = <<>>
    /\ senders = <<>>
    /\ receivers = <<>>
    /\ closedS = <<>>
    /\ closedR = <<>>
    /\ sendq = <<>>
    /\ inbox = <<>>
    /\ sent = <<>>
    /\ got = <<>>
    /\ afterDead = <<>>

ChanInit ==
    /\ alive = [p \in Procs |-> "running"]
    /\ diag = [p \in Procs |-> DiagNone]
    /\ senders = [p \in Procs |-> [r \in Pids |-> 0]]
    /\ receivers = [p \in Procs |-> [r \in Pids |-> 0]]
    /\ closedS = [p \in Procs |-> {}]
    /\ closedR = [p \in Procs |-> {}]
    /\ sendq = [pr \in AllPairs |-> <<>>]
    /\ inbox = [pr \in AllPairs |-> <<>>]
    /\ sent = [pr \in AllPairs |-> <<>>]
    /\ got = [pr \in AllPairs |-> <<>>]
    /\ afterDead = [pr \in AllPairs |-> NoSend]

Init == ChanInit /\ SelIdle /\ BytesIdle /\ SpawnIdle /\ BridgeIdle /\ ParseIdle /\ CallsIdle /\ InputIdle /\ RandIdle /\ ChildIdle /\ ReadyIdle /\ ForwardIdle

Next ==
    \/ \E p \in Procs, r \in Pids : SenderNew(p, r)
    \/ \E p \in Procs, r \in Pids : ReceiverNew(p, r)
    \/ \E p \in Procs, r \in Pids, v \in Values : SenderSend(p, r, v)
    \/ \E p \in Procs, r \in Pids : ReceiverRecv(p, r)
    \/ \E p \in Procs, r \in Pids : SenderDrop(p, r)
    \/ \E p \in Procs, r \in Pids : ReceiverDrop(p, r)
    \/ \E pr \in Pairs : ReactorWrite(pr[1], pr[2])
    \/ \E p \in Procs : ProcessExit(p)
    \/ \E p \in Procs : ProcessKill(p)

Spec == Init /\ [][Next]_vars

\* The reactor thread runs whenever it has bytes to write, and a receiver that
\* keeps calling recv is served whenever a result is ready.
FairSpec ==
    /\ Init
    /\ [][Next]_vars
    /\ \A pr \in Pairs : WF_vars(ReactorWrite(pr[1], pr[2]))
    /\ \A pr \in Pairs : WF_vars(ReceiverRecv(pr[2], PidOf(pr[1])))

-----------------------------------------------------------------------------
(* select.  Rand is the size-one reservoir of constellation-internal; its    *)
(* random draws are nondeterministic here.  channel::select is not among the *)
(* sources: it polls every token for readiness, commits one ready token      *)
(* chosen through the reservoir and hands back the others; it parks while no *)
(* token is ready.                                                           *)

RandNew == [res |-> 0, count |-> 0]

\* push keeping x where the draw is 1
RandPushDrawOne(r, x, draw) ==
    [count |-> r.count + 1, res |-> IF draw = 1 THEN x ELSE r.res]

\* push: count += 1; if gen_range(0, count) == 0 { res = Some(x) }
RandPush(r, x, draw) ==
    [count |-> r.count + 1, res |-> IF draw = 0 THEN x ELSE r.res]

RandGet(r) == r.res

RECURSIVE PollTokens(_, _, _)
\* the reservoirs that polling tokens[1 .. i] can leave, one per run of draws
PollTokens(tokens, ready, i) ==
    IF i = 0 THEN {RandNew}
    ELSE LET prev == PollTokens(tokens, ready, i - 1)
         IN  IF tokens[i] \in ready
             THEN UNION {{RandPush(r, i, d) : d \in 0 .. r.count} : r \in prev}
             ELSE prev

\* the items pushed into the reservoir: the indices of tokens
Items == 1 .. MaxTokens

\* rand.push(x, rng), the generator drawing any number below the new count
Push(x, draw) ==
    /\ rgot = <<>>
    /\ Len(rpushed) < MaxPushes
    /\ draw \in 0 .. rand.count
    /\ rand' = RandPush(rand, x, draw)
    /\ rpushed' = Append(rpushed, x)
    /\ UNCHANGED rgot
    /\ UNCHANGED nonRandVars

\* rand.get(), which takes the Rand
Get ==
    /\ rgot = <<>>
    /\ rgot' = <<RandGet(rand)>>
    /\ UNCHANGED <<rand, rpushed>>
    /\ UNCHANGED nonRandVars

\* Rand::new()
RandInit ==
    /\ ChanIdle /\ SelIdle /\ BytesIdle /\ SpawnIdle /\ BridgeIdle /\ ParseIdle
    /\ CallsIdle /\ InputIdle /\ ReadyIdle /\ ForwardIdle /\ ChildIdle
    /\ rand = RandNew
    /\ rpushed = <<>>
    /\ rgot = <<>>

RandNext ==
    \/ \E x \in Items, draw \in 0 .. MaxPushes : Push(x, draw)
    \/ Get

SpecRand == RandInit /\ [][RandNext]_vars

RemoveAt(seq, k) == SubSeq(seq, 1, k - 1) \o SubSeq(seq, k + 1, Len(seq))

\* the possible outcomes of channel::select(tokens): the index committed and
\* the tokens handed back
ChannelSelect(tokens, ready) ==
    {[committed |-> RandGet(r), rest |-> RemoveAt(tokens, RandGet(r))] :
        r \in {x \in PollTokens(tokens, ready, Len(tokens)) : RandGet(x) # 0}}

\* Sender::selectable_send / Receiver::selectable_recv: a token that does not
\* act until select commits it; its closure has not been invoked
Selectable(kind) ==
    /\ selRun.state # "running"
    /\ Len(selTokens) < MaxTokens
    /\ selTokens' = Append(selTokens,
                           [kind |-> kind, commits |-> 0, calls |-> 0, arg |-> NoArg])
    /\ selHeld' = Append(selHeld, Len(selTokens) + 1)
    /\ UNCHANGED <<selReady, selCalls, selRun, selIn, selOut>>
    /\ UNCHANGED nonSelVars

SelectableSend == Selectable("send")

SelectableRecv == Selectable("recv")

\* what recv can hand to the consumer of a selectable_recv
Results == {Ok(v) : v \in Values} \cup {Exited, Error}

\* the reactor makes the channel operation of a held token progressable: the
\* peer can take a value, or a result r waits in the inbox
TokenReady(t, r) ==
    /\ \E i \in 1 .. Len(selHeld) : selHeld[i] = t
    /\ t \notin selReady
    /\ selReady' = selReady \cup {t}
    /\ selIn' = IF selTokens[t].kind = "recv" THEN [selIn EXCEPT ![t] = r] ELSE selIn
    /\ UNCHANGED <<selHeld, selTokens, selCalls, selRun, selOut>>
    /\ UNCHANGED nonSelVars

\* Commit with the value of a send handed to the peer twice
CommitSendsTwice(t, v) ==
    IF selTokens[t].kind = "send"
    THEN /\ selTokens' = [selTokens EXCEPT ![t].commits = @ + 1, ![t].calls = @ + 1,
                                           ![t].arg = Produced(v)]
         /\ selOut' = selOut \o <<[token |-> t, value |-> v], [token |-> t, value |-> v]>>
         /\ UNCHANGED selIn
    ELSE /\ selTokens' = [selTokens EXCEPT ![t].commits = @ + 1, ![t].calls = @ + 1,
                                           ![t].arg = selIn[t]]
         /\ selIn' = [selIn EXCEPT ![t] = NoArg]
         /\ UNCHANGED selOut

\* the commit of token t: a send invokes its producer, which returns v, and
\* hands v to the peer; a recv takes the waiting result and invokes its
\* consumer with it
Commit(t, v) ==
    IF selTokens[t].kind = "send"
    THEN /\ selTokens' = [selTokens EXCEPT ![t].commits = @ + 1, ![t].calls = @ + 1,
                                           ![t].arg = Produced(v)]
         /\ selOut' = Append(selOut, [token |-> t, value |-> v])
         /\ UNCHANGED selIn
    ELSE /\ selTokens' = [selTokens EXCEPT ![t].commits = @ + 1, ![t].calls = @ + 1,
                                           ![t].arg = selIn[t]]
         /\ selIn' = [selIn EXCEPT ![t] = NoArg]
         /\ UNCHANGED selOut

\* Select handing back every token, the committed one included
SelectKeepsCommitted ==
    /\ selRun.state # "running"
    /\ selHeld # <<>>
    /\ \E o \in ChannelSelect(selHeld, selReady), v \in Values :
          /\ Commit(selHeld[o.committed], v)
          /\ selHeld' = selHeld
          /\ selReady' = selReady
    /\ selCalls' = selCalls + 1
    /\ UNCHANGED selRun
    /\ UNCHANGED nonSelVars

\* Select taking every held token for ready
SelectIgnoresReadiness ==
    /\ selRun.state # "running"
    /\ selHeld # <<>>
    /\ \E o \in ChannelSelect(selHeld, {selHeld[i] : i \in 1 .. Len(selHeld)}),
          v \in Values :
          /\ Commit(selHeld[o.committed], v)
          /\ selHeld' = o.rest
          /\ selReady' = selReady \ {selHeld[o.committed]}
    /\ selCalls' = selCalls + 1
    /\ UNCHANGED selRun
    /\ UNCHANGED nonSelVars

\* select(tokens) called with every token the caller holds, and returning
Select ==
    /\ selRun.state # "running"
    /\ selHeld # <<>>
    /\ \E o \in ChannelSelect(selHeld, selReady), v \in Values :
          /\ Commit(selHeld[o.committed], v)
          /\ selHeld' = o.rest
          /\ selReady' = selReady \ {selHeld[o.committed]}
    /\ selCalls' = selCalls + 1
    /\ UNCHANGED selRun
    /\ UNCHANGED nonSelVars

\* run(tokens) called with every token the caller holds
RunCall ==
    /\ selRun.state # "running"
    /\ selRun' = [state |-> "running", tokens |-> selHeld, rounds |-> 0,
                  calls |-> selCalls]
    /\ UNCHANGED <<selHeld, selReady, selTokens, selCalls, selIn, selOut>>
    /\ UNCHANGED nonSelVars

\* one turn of the loop of run: select = self::select(select).collect()
RunSelect ==
    /\ selRun.state = "running"
    /\ selHeld # <<>>
    /\ \E o \in ChannelSelect(selHeld, selReady), v \in Values :
          /\ Commit(selHeld[o.committed], v)
          /\ selHeld' = o.rest
          /\ selReady' = selReady \ {selHeld[o.committed]}
    /\ selCalls' = selCalls + 1
    /\ selRun' = [selRun EXCEPT !.rounds = @ + 1]
    /\ UNCHANGED nonSelVars

\* RunReturn leaving the loop with one token still in the collection
RunReturnEarly ==
    /\ selRun.state = "running"
    /\ Len(selHeld) <= 1
    /\ selRun' = [selRun EXCEPT !.state = "returned"]
    /\ UNCHANGED <<selHeld, selReady, selTokens, selCalls, selIn, selOut>>
    /\ UNCHANGED nonSelVars

\* while !select.is_empty() fails: run returns
RunReturn ==
    /\ selRun.state = "running"
    /\ selHeld = <<>>
    /\ selRun' = [selRun EXCEPT !.state = "returned"]
    /\ UNCHANGED <<selHeld, selReady, selTokens, selCalls, selIn, selOut>>
    /\ UNCHANGED nonSelVars

SelNext ==
    \/ SelectableSend
    \/ SelectableRecv
    \/ \E t \in 1 .. MaxTokens, r \in Results : TokenReady(t, r)
    \/ Select
    \/ RunCall
    \/ RunSelect
    \/ RunReturn

SelInit == ChanIdle /\ SelIdle /\ BytesIdle /\ SpawnIdle /\ BridgeIdle /\ ParseIdle /\ CallsIdle /\ InputIdle /\ RandIdle /\ ChildIdle /\ ReadyIdle /\ ForwardIdle

SpecSelect == SelInit /\ [][SelNext]_vars

\* the reactor goes on making the held tokens ready, and the thread in run
\* goes on running
FairSpecSelect ==
    /\ SpecSelect
    /\ WF_vars(\E t \in 1 .. MaxTokens, r \in Results : TokenReady(t, r))
    /\ WF_vars(RunSelect)
    /\ WF_vars(RunReturn)

-----------------------------------------------------------------------------
(* The bridge and the monitors of a native tree.  An instance is one user    *)
(* process with its monitor; its pid is ("127.0.0.1", port) with the port    *)
(* the operating system gave to its listener, bound to port 0.  ExitStatus   *)
(* and its += are not among the sources: Success + x = x and the first error *)
(* observed is kept.  The bytes written are numbered, so that an Output      *)
(* event shows which bytes it carries.  A process leaves only when its reactor has closed every peer,    *)
(* and closing awaits the peer's acknowledgment: for a monitor, the bridge   *)
(* dropping its endpoint pair to it.                                         *)

Insts == 1 .. MaxInsts

Ports == 1 .. MaxPorts

\* libc::STDOUT_FILENO, libc::STDERR_FILENO
OutFds == {1, 2}

\* the buffer of one read in forward_fd
ForwardBuf == 1024

Success == <<"Success">>

ErrorStatus(n) == <<"Error", "Status", n>>

ErrorSignal(n) == <<"Error", "Signal", n>>

\* the status a panic of the bridge's main thread ends its process with
PanicStatus == ErrorStatus(101)

NoStatus == <<"none">>

\* what waitpid can report for a user process
WaitStatuses == {<<"Exited", 0>>, <<"Exited", 1>>, <<"Signaled", 9>>}

\* from_unix_status / from_unix_signal as the monitor applies them
FromWait(w) ==
    IF w[1] = "Exited"
    THEN (IF w[2] = 0 THEN Success ELSE ErrorStatus(w[2]))
    ELSE ErrorSignal(w[2])

\* the statuses a monitor can report
Statuses == {FromWait(w) : w \in WaitStatuses}

\* + with the later error winning
AddStatusLast(a, b) == IF b = Success THEN a ELSE b

\* exit_code += exit_code_
AddStatus(a, b) == IF a = Success THEN b ELSE a

\* ProcessOutputEvent
SpawnEvent(new_pid) == <<"Spawn", new_pid>>

OutputEvent(fd, bytes) == <<"Output", fd, bytes>>

ExitEvent(status) == <<"Exit", status>>

\* the DeployOutputEvent the bridge makes of an event received from pid
DeployOutputEvent(pid, event) ==
    IF event[1] = "Spawn" THEN <<"Spawn", pid, event[2]>>
    ELSE IF event[1] = "Output" THEN <<"Output", pid, event[2], event[3]>>
    ELSE <<"Exit", pid, event[2]>>

\* the ports bound as long as the user process runs only
BoundPortsOfUsers == {uport[i] : i \in {j \in Insts : uproc[j] = "running"}}

\* the ports some listener is still bound to: an instance keeps its listener
\* until its monitor has terminated
BoundPorts ==
    {uport[i] : i \in {j \in Insts : mon[j] \in {"running", "exit_sent", "acked"}}}

Unborn == {i \in Insts : uproc[i] = "unborn"}

\* the instance whose monitor sends from this pid now, or did until it aborted
InstOf(port) ==
    CHOOSE i \in Insts :
        uport[i] = port /\ mon[i] \in {"running", "exit_sent", "aborted"}

\* spawn_native in user process p: a listener on a port the system chooses,
\* the new process with its monitor, and the Spawn event on MONITOR_FD
UserSpawn(p, port) ==
    /\ uproc[p] = "running"
    /\ Unborn # {}
    /\ port \in Ports \ BoundPorts
    /\ LET c == CHOOSE i \in Unborn : \A j \in Unborn : i <= j
       IN  /\ uproc' = [uproc EXCEPT ![c] = "running"]
           /\ uport' = [uport EXCEPT ![c] = port]
           /\ mon' = [mon EXCEPT ![c] = "running"]
    /\ monpipe' = [monpipe EXCEPT ![p] = Append(@, SpawnEvent(port))]
    /\ UNCHANGED <<ustatus, upipe, ufwd, nOut, msent, mq, processes, exit_code,
                   bout, bridge, bridgeCode, nAdded, nExits>>
    /\ UNCHANGED nonBridgeVars

\* how many bytes are written in all: one more where a single process is
\* followed
OutLimit == IF \A i \in Insts \ {1} : uproc[i] = "absent" THEN MaxOut + 1 ELSE MaxOut

\* the user process writes a byte to its standard output or standard error,
\* the pipes its monitor reads; the bytes written are numbered as they come
UserWrite(i, fd) ==
    /\ uproc[i] = "running"
    /\ nOut < OutLimit
    /\ upipe' = [upipe EXCEPT ![i][fd] = Append(@, nOut + 1)]
    /\ nOut' = nOut + 1
    /\ UNCHANGED <<uproc, uport, ustatus, ufwd, monpipe, mon, msent, mq, processes,
                   exit_code, bout, bridge, bridgeCode, nAdded, nExits>>
    /\ UNCHANGED nonBridgeVars

\* the user process ends, by exit or by a signal; its ends of the pipes close
UserExit(i, w) ==
    /\ uproc[i] = "running"
    /\ uproc' = [uproc EXCEPT ![i] = "exited"]
    /\ ustatus' = [ustatus EXCEPT ![i] = w]
    /\ UNCHANGED <<uport, upipe, ufwd, nOut, monpipe, mon, msent, mq, processes,
                   exit_code, bout, bridge, bridgeCode, nAdded, nExits>>
    /\ UNCHANGED nonBridgeVars

\* the instances whose events are recorded in msent and bout
Followed == DOMAIN msent

\* a monitor's event reaches the channel to the bridge: the thread
\* channel-to-bridge sends what it is handed, in the order it is handed it
MonitorSend(i, event) ==
    /\ mq' = [mq EXCEPT ![uport[i]] = Append(@, event)]
    /\ msent' = [j \in Followed |-> IF j = i THEN Append(msent[j], event) ELSE msent[j]]

\* ForwardFd ending at end of file with no event
ForwardFdSilentEnd(i, fd) ==
    /\ mon[i] = "running"
    /\ ufwd[i][fd] = "open"
    /\ \/ \E n \in 1 .. Len(upipe[i][fd]) :
            /\ n <= ForwardBuf
            /\ MonitorSend(i, OutputEvent(fd, SubSeq(upipe[i][fd], 1, n)))
            /\ upipe' = [upipe EXCEPT ![i][fd] = SubSeq(@, n + 1, Len(@))]
            /\ UNCHANGED ufwd
       \/ /\ upipe[i][fd] = <<>>
          /\ uproc[i] = "exited"
          /\ ufwd' = [ufwd EXCEPT ![i][fd] = "done"]
          /\ UNCHANGED <<upipe, mq, msent>>
    /\ UNCHANGED <<uproc, uport, ustatus, nOut, monpipe, mon, processes, exit_code,
                   bout, bridge, bridgeCode, nAdded, nExits>>
    /\ UNCHANGED nonBridgeVars

\* one turn of a forward_fd thread: the bytes read go out as an Output event;
\* at end of file an empty Output goes out and the thread ends
ForwardFd(i, fd) ==
    /\ mon[i] = "running"
    /\ ufwd[i][fd] = "open"
    /\ \/ \E n \in 1 .. Len(upipe[i][fd]) :
            /\ n <= ForwardBuf
            /\ MonitorSend(i, OutputEvent(fd, SubSeq(upipe[i][fd], 1, n)))
            /\ upipe' = [upipe EXCEPT ![i][fd] = SubSeq(@, n + 1, Len(@))]
            /\ UNCHANGED ufwd
       \/ /\ upipe[i][fd] = <<>>
          /\ uproc[i] = "exited"
          /\ MonitorSend(i, OutputEvent(fd, <<>>))
          /\ ufwd' = [ufwd EXCEPT ![i][fd] = "done"]
          /\ UNCHANGED upipe
    /\ UNCHANGED <<uproc, uport, ustatus, nOut, monpipe, mon, processes, exit_code,
                   bout, bridge, bridgeCode, nAdded, nExits>>
    /\ UNCHANGED nonBridgeVars

\* monitor threads monitorfd-to-channel and channel-to-bridge: one event read
\* from the pipe is sent on the channel to the bridge
MonitorForward(i) ==
    /\ mon[i] = "running"
    /\ monpipe[i] # <<>>
    /\ MonitorSend(i, Head(monpipe[i]))
    /\ monpipe' = [monpipe EXCEPT ![i] = Tail(@)]
    /\ UNCHANGED <<uproc, uport, ustatus, upipe, ufwd, nOut, mon, processes,
                   exit_code, bout, bridge, bridgeCode, nAdded, nExits>>
    /\ UNCHANGED nonBridgeVars

\* MonitorExit without the joins: Exit(code) goes out as soon as waitpid
\* has returned
MonitorExitNoJoin(i) ==
    /\ mon[i] = "running"
    /\ uproc[i] = "exited"
    /\ MonitorSend(i, ExitEvent(FromWait(ustatus[i])))
    /\ mon' = [mon EXCEPT ![i] = "exit_sent"]
    /\ UNCHANGED <<uproc, uport, ustatus, upipe, ufwd, nOut, monpipe, processes,
                   exit_code, bout, bridge, bridgeCode, nAdded, nExits>>
    /\ UNCHANGED nonBridgeVars

\* MonitorExit joining the thread channel-to-bridge, which ends on the Exit
\* event only, before it hands that event over
MonitorExitJoinsSenderFirst(i) ==
    /\ mon[i] = "running"
    /\ uproc[i] = "exited"
    /\ \A fd \in OutFds : ufwd[i][fd] = "done"
    /\ monpipe[i] = <<>>
    /\ ExitEvent(FromWait(ustatus[i])) \in {mq[uport[i]][n] : n \in DOMAIN mq[uport[i]]}
    /\ MonitorSend(i, ExitEvent(FromWait(ustatus[i])))
    /\ mon' = [mon EXCEPT ![i] = "exit_sent"]
    /\ UNCHANGED <<uproc, uport, ustatus, upipe, ufwd, nOut, monpipe, processes,
                   exit_code, bout, bridge, bridgeCode, nAdded, nExits>>
    /\ UNCHANGED nonBridgeVars

\* monitor main thread: waitpid has returned, the forwarding threads of
\* stdout, stderr and the monitor pipe have reached end of file and are
\* joined, and Exit(code) goes to the bridge last
MonitorExit(i) ==
    /\ mon[i] = "running"
    /\ uproc[i] = "exited"
    /\ \A fd \in OutFds : ufwd[i][fd] = "done"
    /\ monpipe[i] = <<>>
    /\ MonitorSend(i, ExitEvent(FromWait(ustatus[i])))
    /\ mon' = [mon EXCEPT ![i] = "exit_sent"]
    /\ UNCHANGED <<uproc, uport, ustatus, upipe, ufwd, nOut, monpipe, processes,
                   exit_code, bout, bridge, bridgeCode, nAdded, nExits>>
    /\ UNCHANGED nonBridgeVars

\* the bridge has dropped its Sender and Receiver to the monitor of i, or is
\* gone itself
PeerAcknowledged(i) ==
    \/ mon[i] = "acked"
    \/ mon[i] = "exit_sent" /\ bridge # "running"

\* process::exit(0) of the monitor: the exit handler closes the reactor, the
\* listener is closed and the port is free
MonitorTerminate(i) ==
    /\ PeerAcknowledged(i)
    /\ mon' = [mon EXCEPT ![i] = "terminated"]
    /\ UNCHANGED <<uproc, uport, ustatus, upipe, ufwd, nOut, monpipe, msent, mq,
                   processes, exit_code, bout, bridge, bridgeCode, nAdded, nExits>>
    /\ UNCHANGED nonBridgeVars

InList(port) == \E k \in 1 .. Len(processes) : processes[k] = port

\* dropping the endpoint pair to a pid acknowledges the close of the monitor
\* that sent its Exit from there
Acknowledge(port) ==
    [i \in Insts |-> IF uport[i] = port /\ mon[i] = "exit_sent" THEN "acked" ELSE mon[i]]

\* formatter.write(&event) / serde_json::to_writer: the event made of what was
\* received from pid goes to the bridge's output
Emit(pid, event) ==
    IF InstOf(pid) \in Followed
    THEN Append(bout, [from |-> InstOf(pid), event |-> DeployOutputEvent(pid, event)])
    ELSE bout

\* BridgeEvent with exit_code = exit_code_ in place of +=
BridgeEventKeepsLast(k) ==
    /\ bridge = "running"
    /\ k \in 1 .. Len(processes)
    /\ mq[processes[k]] # <<>>
    /\ LET event == Head(mq[processes[k]])
       IN  /\ mq' = [mq EXCEPT ![processes[k]] = Tail(@)]
           /\ IF event[1] = "Spawn"
              THEN /\ processes' = Append(processes, event[2])
                   /\ nAdded' = nAdded + 1
                   /\ UNCHANGED <<exit_code, bridge, bridgeCode, nExits>>
              ELSE IF event[1] = "Output"
              THEN UNCHANGED <<processes, exit_code, bridge, bridgeCode, nAdded, nExits>>
              ELSE /\ exit_code' = event[2]
                   /\ processes' = RemoveAt(processes, k)
                   /\ nExits' = nExits + 1
                   /\ UNCHANGED <<bridge, bridgeCode, nAdded>>
           /\ bout' = Emit(processes[k], event)
           /\ mon' = IF event[1] = "Exit" THEN Acknowledge(processes[k]) ELSE mon
    /\ UNCHANGED <<uproc, uport, ustatus, upipe, ufwd, nOut, monpipe, msent>>
    /\ UNCHANGED nonBridgeVars

\* BridgeEvent writing the event it handles before the one written last
BridgeEventWritesOutOfOrder(k) ==
    /\ bridge = "running"
    /\ k \in 1 .. Len(processes)
    /\ mq[processes[k]] # <<>>
    /\ LET event == Head(mq[processes[k]])
           e == [from |-> InstOf(processes[k]),
                 event |-> DeployOutputEvent(processes[k], event)]
           last == IF bout = <<>> THEN <<>> ELSE <<bout[Len(bout)]>>
       IN  /\ mq' = [mq EXCEPT ![processes[k]] = Tail(@)]
           /\ IF event[1] = "Spawn"
              THEN /\ processes' = Append(processes, event[2])
                   /\ nAdded' = nAdded + 1
                   /\ UNCHANGED <<exit_code, bridge, bridgeCode, nExits>>
              ELSE IF event[1] = "Output"
              THEN UNCHANGED <<processes, exit_code, bridge, bridgeCode, nAdded, nExits>>
              ELSE /\ exit_code' = AddStatus(exit_code, event[2])
                   /\ processes' = RemoveAt(processes, k)
                   /\ nExits' = nExits + 1
                   /\ UNCHANGED <<bridge, bridgeCode, nAdded>>
           /\ bout' = IF e.from \in Followed
                      THEN SubSeq(bout, 1, Len(bout) - 1) \o <<e>> \o last
                      ELSE bout
           /\ mon' = IF event[1] = "Exit" THEN Acknowledge(processes[k]) ELSE mon
    /\ UNCHANGED <<uproc, uport, ustatus, upipe, ufwd, nOut, monpipe, msent>>
    /\ UNCHANGED nonBridgeVars

\* the pid looked up in the first entry, whichever receiver was selected
RemotePidOfFirst(k) == processes[1]

\* processes[i].0.remote_pid(): an entry is the Sender and the Receiver made
\* for one pid, and stands in the list as that pid
RemotePid(k) == processes[k]

\* one turn of the bridge's loop: select commits the receiver of entry k,
\* whose next event is handled and written to the bridge's output
BridgeEvent(k) ==
    /\ bridge = "running"
    /\ k \in 1 .. Len(processes)
    /\ mq[processes[k]] # <<>>
    /\ LET event == Head(mq[processes[k]])
       IN  /\ mq' = [mq EXCEPT ![processes[k]] = Tail(@)]
           /\ IF event[1] = "Spawn"
              THEN IF InList(event[2])
                   THEN \* Sender::new panics: a Sender to this pid exists
                        /\ bridge' = "panicked"
                        /\ bridgeCode' = PanicStatus
                        /\ UNCHANGED <<processes, exit_code, bout, nAdded, nExits>>
                   ELSE /\ processes' = Append(processes, event[2])
                        /\ nAdded' = nAdded + 1
                        /\ bout' = Emit(RemotePid(k), event)
                        /\ UNCHANGED <<exit_code, bridge, bridgeCode, nExits>>
              ELSE IF event[1] = "Output"
              THEN /\ bout' = Emit(RemotePid(k), event)
                   /\ UNCHANGED <<processes, exit_code, bridge, bridgeCode, nAdded,
                                  nExits>>
              ELSE /\ exit_code' = AddStatus(exit_code, event[2])
                   /\ processes' = RemoveAt(processes, k)
                   /\ nExits' = nExits + 1
                   /\ bout' = Emit(RemotePid(k), event)
                   /\ UNCHANGED <<bridge, bridgeCode, nAdded>>
           /\ mon' = IF event[1] = "Exit" THEN Acknowledge(processes[k]) ELSE mon
    /\ UNCHANGED <<uproc, uport, ustatus, upipe, ufwd, nOut, monpipe, msent>>
    /\ UNCHANGED nonBridgeVars

\* BridgeExit leaving the loop with one entry still in the list
BridgeExitEarly ==
    /\ bridge = "running"
    /\ Len(processes) <= 1
    /\ bridge' = "exited"
    /\ bridgeCode' = exit_code
    /\ UNCHANGED <<uproc, uport, ustatus, upipe, ufwd, nOut, monpipe, mon, msent, mq,
                   processes, exit_code, bout, nAdded, nExits>>
    /\ UNCHANGED nonBridgeVars

\* the list is empty: process::exit(exit_code.into())
BridgeExit ==
    /\ bridge = "running"
    /\ processes = <<>>
    /\ bridge' = "exited"
    /\ bridgeCode' = exit_code
    /\ UNCHANGED <<uproc, uport, ustatus, upipe, ufwd, nOut, monpipe, mon, msent, mq,
                   processes, exit_code, bout, nAdded, nExits>>
    /\ UNCHANGED nonBridgeVars

\* the root user process with its monitor, and the bridge holding its entry;
\* at most tree processes ever run, the forward_fd threads are in state fwd,
\* and the events of the instances in followed are recorded
TreeInit(tree, fwd, followed) ==
    /\ ChanIdle /\ SelIdle /\ BytesIdle /\ SpawnIdle /\ ParseIdle /\ CallsIdle
    /\ uproc = [i \in Insts |-> IF i = 1 THEN "running"
                                ELSE IF i <= tree THEN "unborn" ELSE "absent"]
    /\ uport = [i \in Insts |-> IF i = 1 THEN 1 ELSE 0]
    /\ ustatus = [i \in Insts |-> <<"none", 0>>]
    /\ upipe = [i \in Insts |-> [fd \in OutFds |-> <<>>]]
    /\ ufwd = [i \in Insts |-> [fd \in OutFds |-> fwd]]
    /\ nOut = 0
    /\ monpipe = [i \in Insts |-> <<>>]
    /\ mon = [i \in Insts |-> IF i = 1 THEN "running" ELSE "none"]
    /\ msent = [i \in followed |-> <<>>]
    /\ mq = [p \in Ports |-> <<>>]
    /\ processes = <<1>>
    /\ exit_code = Success
    /\ bout = <<>>
    /\ bridge = "running"
    /\ bridgeCode = NoStatus
    /\ nAdded = 1
    /\ nExits = 0

\* SpecBridge follows the bridge's list and status only: the standard streams
\* of the processes are left out, their forward_fd threads count as ended,
\* and no event is recorded
BridgeInit == TreeInit(MaxInsts, "done", {}) /\ InputIdle /\ RandIdle /\ ChildIdle /\ ReadyIdle /\ ForwardIdle

BridgeNext ==
    \/ \E p \in Insts, port \in Ports : UserSpawn(p, port)
    \/ \E i \in Insts, w \in WaitStatuses : UserExit(i, w)
    \/ \E i \in Insts : MonitorForward(i)
    \/ \E i \in Insts : MonitorExit(i)
    \/ \E i \in Insts : MonitorTerminate(i)
    \/ \E k \in 1 .. MaxInsts : BridgeEvent(k)
    \/ BridgeExit

SpecBridge == BridgeInit /\ [][BridgeNext]_vars

\* SpecEvents follows every event of a tree of at most MaxTree processes from
\* the user process to the bridge's output
EventsInit == TreeInit(MaxTree, "open", Insts) /\ InputIdle /\ RandIdle /\ ChildIdle /\ ReadyIdle /\ ForwardIdle

EventsNext ==
    \/ \E p \in Insts, port \in Ports : UserSpawn(p, port)
    \/ \E i \in Insts, fd \in OutFds : UserWrite(i, fd)
    \/ \E i \in Insts, w \in WaitStatuses : UserExit(i, w)
    \/ \E i \in Insts, fd \in OutFds : ForwardFd(i, fd)
    \/ \E i \in Insts : MonitorForward(i)
    \/ \E i \in Insts : MonitorExit(i)
    \/ \E i \in Insts : MonitorTerminate(i)
    \/ \E k \in 1 .. MaxInsts : BridgeEvent(k)
    \/ BridgeExit

SpecEvents == EventsInit /\ [][EventsNext]_vars

\* the same tree with no event recorded, under fair scheduling of the threads
\* of the monitors and of the bridge; the user processes run as they like
TreeLiveInit == TreeInit(MaxTree, "open", {}) /\ InputIdle /\ RandIdle /\ ChildIdle /\ ReadyIdle /\ ForwardIdle

SpecTree == TreeLiveInit /\ [][EventsNext]_vars

FairSpecTree ==
    /\ SpecTree
    /\ \A i \in Insts :
          /\ \A fd \in OutFds : WF_vars(ForwardFd(i, fd))
          /\ WF_vars(MonitorForward(i))
          /\ WF_vars(MonitorExit(i))
          /\ WF_vars(MonitorTerminate(i))
    /\ WF_vars(\E k \in 1 .. MaxInsts : BridgeEvent(k))
    /\ WF_vars(BridgeExit)

-----------------------------------------------------------------------------
(* The monitor of one process with both directions of its traffic: the       *)
(* output of the process to the bridge as above, and the ProcessInputEvents  *)
(* the bridge sends.  The thread monitor-bridge-to-channel receives them     *)
(* from the channel and hands an Input over a rendezvous channel to the      *)
(* thread monitor-forward_input_fd, which writes it to the standard input of *)
(* the process; Kill it answers with SIGKILL.  The native bridge sends no    *)
(* input, so the events are any the bridge of the fabric may send.  A panic  *)
(* of a thread ends the thread, or the whole monitor where the build makes   *)
(* panics abort; the process then dies by PR_SET_PDEATHSIG.                  *)

InputEvent(fd, bytes) == <<"Input", fd, bytes>>

KillEvent == <<"Kill">>

NoInput == <<"none">>

PanicStrategies == {"unwind", "abort"}

\* the monitor process exists: it has neither left nor aborted
MonitorAlive(i) == mon[i] \in {"running", "exit_sent", "acked"}

\* the bridge sends an event to the monitor of i; the bytes sent are numbered
\* as they come
BridgeSend(i, what) ==
    /\ bridge = "running"
    /\ MonitorAlive(i)
    /\ Len(bsent[i]) < MaxIn
    /\ LET event == IF what = "kill" THEN KillEvent
                    ELSE IF what = "close" THEN InputEvent(0, <<>>)
                    ELSE InputEvent(0, <<Len(bsent[i]) + 1>>)
       IN  /\ bsent' = [bsent EXCEPT ![i] = Append(@, event)]
           /\ binq' = [binq EXCEPT ![i] = Append(@, event)]
    /\ UNCHANGED <<relay, stdinT, spending, ustdin, mkilled, mbuild>>
    /\ UNCHANGED bridgeVars
    /\ UNCHANGED nonMonitorVars

\* a panic of the thread monitor-bridge-to-channel
RelayPanics(i) ==
    /\ relay' = [relay EXCEPT ![i] = "panicked"]
    /\ IF mbuild = "abort"
       THEN /\ mon' = [mon EXCEPT ![i] = "aborted"]
            /\ IF uproc[i] = "running"
               THEN /\ uproc' = [uproc EXCEPT ![i] = "exited"]
                    /\ ustatus' = [ustatus EXCEPT ![i] = <<"Signaled", 9>>]
               ELSE UNCHANGED <<uproc, ustatus>>
       ELSE UNCHANGED <<mon, uproc, ustatus>>

\* signal::kill(child, SIGKILL): the child ends by the signal; if it has ended
\* already the call does nothing or fails with ESRCH, which is let pass
KillChild(i) ==
    IF uproc[i] = "running"
    THEN /\ uproc' = [uproc EXCEPT ![i] = "exited"]
         /\ ustatus' = [ustatus EXCEPT ![i] = <<"Signaled", 9>>]
    ELSE UNCHANGED <<uproc, ustatus>>

\* RelayInput with kill(..).unwrap(): ESRCH is a panic
RelayInputKillUnwraps(i) ==
    /\ MonitorAlive(i)
    /\ relay[i] = "running"
    /\ binq[i] # <<>>
    /\ LET event == Head(binq[i])
       IN  IF event = KillEvent
           THEN /\ mkilled' = [mkilled EXCEPT ![i] = TRUE]
                /\ IF uproc[i] = "running"
                   THEN /\ KillChild(i)
                        /\ relay' = [relay EXCEPT ![i] = "ended"]
                        /\ UNCHANGED mon
                   ELSE RelayPanics(i)
                /\ UNCHANGED spending
           ELSE IF stdinT[i] = "ended"
           THEN /\ RelayPanics(i)
                /\ UNCHANGED <<spending, mkilled>>
           ELSE /\ spending[i] = NoInput
                /\ spending' = [spending EXCEPT ![i] = event]
                /\ UNCHANGED <<relay, mkilled, mon, uproc, ustatus>>
    /\ binq' = [binq EXCEPT ![i] = Tail(@)]
    /\ UNCHANGED <<bsent, stdinT, ustdin, mbuild>>
    /\ UNCHANGED <<uport, upipe, ufwd, nOut, monpipe, msent, mq, processes, exit_code,
                   bout, bridge, bridgeCode, nAdded, nExits>>
    /\ UNCHANGED nonMonitorVars

\* one turn of the thread monitor-bridge-to-channel: the event received is an
\* Input, sent on to the thread of the standard input, which takes it when it
\* is back at its receive; the send fails, and its unwrap panics, if that
\* thread has ended.  Or it is Kill: the child is signalled and the thread
\* leaves its loop.
RelayInput(i) ==
    /\ MonitorAlive(i)
    /\ relay[i] = "running"
    /\ binq[i] # <<>>
    /\ LET event == Head(binq[i])
       IN  IF event = KillEvent
           THEN /\ KillChild(i)
                /\ relay' = [relay EXCEPT ![i] = "ended"]
                /\ mkilled' = [mkilled EXCEPT ![i] = TRUE]
                /\ UNCHANGED <<spending, mon>>
           ELSE IF stdinT[i] = "ended"
           THEN /\ RelayPanics(i)
                /\ UNCHANGED <<spending, mkilled>>
           ELSE /\ spending[i] = NoInput
                /\ spending' = [spending EXCEPT ![i] = event]
                /\ UNCHANGED <<relay, mkilled, mon, uproc, ustatus>>
    /\ binq' = [binq EXCEPT ![i] = Tail(@)]
    /\ UNCHANGED <<bsent, stdinT, ustdin, mbuild>>
    /\ UNCHANGED <<uport, upipe, ufwd, nOut, monpipe, msent, mq, processes, exit_code,
                   bout, bridge, bridgeCode, nAdded, nExits>>
    /\ UNCHANGED nonMonitorVars

\* receiver.recv() fails once the bridge is gone: the thread leaves its loop
RelayClosed(i) ==
    /\ MonitorAlive(i)
    /\ relay[i] = "running"
    /\ binq[i] = <<>>
    /\ bridge # "running"
    /\ relay' = [relay EXCEPT ![i] = "ended"]
    /\ UNCHANGED <<bsent, binq, stdinT, spending, ustdin, mkilled, mbuild>>
    /\ UNCHANGED bridgeVars
    /\ UNCHANGED nonMonitorVars

\* forward_input_fd, one turn: the bytes of the Input go to the standard
\* input of the process; an empty Input, or a write that fails because the
\* process has ended, closes the pipe and ends the thread
ForwardInputFd(i) ==
    /\ MonitorAlive(i)
    /\ stdinT[i] = "running"
    /\ spending[i] # NoInput
    /\ IF spending[i][3] # <<>> /\ uproc[i] = "running"
       THEN /\ ustdin' = [ustdin EXCEPT ![i] = @ \o spending[i][3]]
            /\ UNCHANGED stdinT
       ELSE /\ stdinT' = [stdinT EXCEPT ![i] = "ended"]
            /\ UNCHANGED ustdin
    /\ spending' = [spending EXCEPT ![i] = NoInput]
    /\ UNCHANGED <<bsent, binq, relay, mkilled, mbuild>>
    /\ UNCHANGED bridgeVars
    /\ UNCHANGED nonMonitorVars

\* SpecMonitor follows one process that spawns nothing, with its monitor and
\* the bridge, under either treatment of panics
MonitorInit ==
    /\ TreeInit(1, "open", Insts)
    /\ ReadyIdle /\ ForwardIdle /\ ChildIdle /\ RandIdle
    /\ bsent = [i \in Insts |-> <<>>]
    /\ binq = [i \in Insts |-> <<>>]
    /\ relay = [i \in Insts |-> "running"]
    /\ stdinT = [i \in Insts |-> "running"]
    /\ spending = [i \in Insts |-> NoInput]
    /\ ustdin = [i \in Insts |-> <<>>]
    /\ mkilled = [i \in Insts |-> FALSE]
    /\ mbuild \in PanicStrategies

MonitorNext ==
    \/ \E i \in Insts, fd \in OutFds : UserWrite(i, fd)
    \/ \E i \in Insts, w \in WaitStatuses : UserExit(i, w)
    \/ \E i \in Insts, fd \in OutFds : ForwardFd(i, fd)
    \/ \E i \in Insts, what \in {"bytes", "close", "kill"} : BridgeSend(i, what)
    \/ \E i \in Insts : RelayInput(i)
    \/ \E i \in Insts : RelayClosed(i)
    \/ \E i \in Insts : ForwardInputFd(i)
    \/ \E i \in Insts : MonitorExit(i)
    \/ \E i \in Insts : MonitorTerminate(i)
    \/ \E k \in 1 .. MaxInsts : BridgeEvent(k)
    \/ BridgeExit

SpecMonitor == MonitorInit /\ [][MonitorNext]_vars

\* every thread of the monitor, and the bridge, gets its turn
FairSpecMonitor ==
    /\ SpecMonitor
    /\ WF_vars(\E i \in Insts, fd \in OutFds : ForwardFd(i, fd))
    /\ WF_vars(\E i \in Insts : MonitorExit(i))
    /\ WF_vars(\E i \in Insts : MonitorTerminate(i))
    /\ WF_vars(\E k \in 1 .. MaxInsts : BridgeEvent(k))

-----------------------------------------------------------------------------
(* The readiness handshake of monitor_process.  After the fork the parent is *)
(* the monitor and the child the user process; both hold the write end of    *)
(* the readiness pipe.  Each runs its statements in the order of the code;   *)
(* the read of the user process returns, with end of file, when no process   *)
(* holds the write end any more.  After monitor_process the user process     *)
(* goes on in init.                                                          *)

\* the monitor after the fork, up to waitpid
MonitorStepsWriterFirst ==
    <<"close_writer", "close_child_ends", "forward_threads", "null_stdio", "reactor",
      "atexit", "endpoints", "event_threads">>

MonitorSteps ==
    <<"close_child_ends", "forward_threads", "null_stdio", "reactor", "atexit",
      "endpoints", "event_threads", "close_writer">>

\* the user process after the fork, to the end of init
UserSteps ==
    <<"close_monitor_ends", "pdeathsig", "read_ready", "close_reader",
      "move_monitor_fd", "move_stdout", "move_stderr", "move_stdin">>
    \o (IF rmode.deployed THEN <<"connect_scheduler">> ELSE <<>>)
    \o <<"reactor", "atexit", "sigchld">>
    \o (IF rmode.subprocess THEN <<"start">> ELSE <<"return">>)

Did(steps, pc, step) == \E k \in 1 .. pc : steps[k] = step

MonitorDid(step) == Did(MonitorSteps, mpc, step)

UserDid(step) == Did(UserSteps, upc, step)

\* the monitor runs its next statement
MonitorStep ==
    /\ mpc < Len(MonitorSteps)
    /\ mpc' = mpc + 1
    /\ rwriters' = IF MonitorSteps[mpc + 1] = "close_writer"
                   THEN rwriters \ {"monitor"} ELSE rwriters
    /\ UNCHANGED <<rmode, upc>>
    /\ UNCHANGED nonReadyVars

\* the user process runs its next statement; unistd::read(reader, ..) returns
\* when the write end is closed everywhere
UserStep ==
    /\ upc < Len(UserSteps)
    /\ UserSteps[upc + 1] = "read_ready" => rwriters = {}
    /\ upc' = upc + 1
    /\ rwriters' = IF UserSteps[upc + 1] = "close_monitor_ends"
                   THEN rwriters \ {"user"} ELSE rwriters
    /\ UNCHANGED <<rmode, mpc>>
    /\ UNCHANGED nonReadyVars

ReadyInit ==
    /\ ChanIdle /\ SelIdle /\ BytesIdle /\ SpawnIdle /\ BridgeIdle /\ ParseIdle
    /\ CallsIdle /\ InputIdle /\ RandIdle /\ ChildIdle /\ ForwardIdle
    /\ rmode \in [deployed : BOOLEAN, subprocess : BOOLEAN]
    /\ mpc = 0
    /\ upc = 0
    /\ rwriters = {"monitor", "user"}

ReadyNext == MonitorStep \/ UserStep

SpecReady == ReadyInit /\ [][ReadyNext]_vars

\* the user process is scheduled
FairSpecReady == SpecReady /\ WF_vars(UserStep)

-----------------------------------------------------------------------------
(* The inbound sockets of a monitor.  The monitor's reactor listens on the   *)
(* listener of the process; for every socket accepted it asks the closure    *)
(* given to Reactor::run whether to keep the socket or to hand it to the     *)
(* socket forwardee, the reactor of the user process.  A peer connects from  *)
(* the address of its pid; getpeername fails for a socket whose peer has     *)
(* reset the connection in the meantime.                                     *)

\* the bridge: parameter bridge of monitor_process
MonitorBridge == PidOf(0)

\* who may connect to the process: the bridge and two other processes
Peers == {MonitorBridge, PidOf(2), PidOf(3)}

\* socket::getpeername(fd)
GetPeerName(socket) == IF socket.reset THEN <<"Err">> ELSE <<"Ok", socket.from>>

\* KeepsSocket keeping nothing it cannot name as the bridge's
KeepsOnlyNamedBridge(socket, baddr) ==
    GetPeerName(socket) = <<"Ok", baddr>>

\* the closure of the monitor's Reactor::run: None, the monitor keeps the
\* socket, for the bridge's address and for a failed getpeername; otherwise
\* Some(socket_forwarder)
KeepsSocket(socket, baddr) ==
    IF GetPeerName(socket)[1] = "Ok"
    THEN GetPeerName(socket)[2] = baddr
    ELSE TRUE

\* the monitor's reactor accepts a connection
MonitorAccept(from, reset) ==
    /\ Len(fkept) + Len(fgiven) < MaxConns
    /\ LET socket == [from |-> from, reset |-> reset]
       IN  IF KeepsSocket(socket, MonitorBridge)
           THEN /\ fkept' = Append(fkept, socket)
                /\ UNCHANGED fgiven
           ELSE /\ fgiven' = Append(fgiven, socket)
                /\ UNCHANGED fkept
    /\ UNCHANGED nonForwardVars

ForwardInit ==
    /\ ChanIdle /\ SelIdle /\ BytesIdle /\ SpawnIdle /\ BridgeIdle /\ ParseIdle
    /\ CallsIdle /\ InputIdle /\ RandIdle /\ ChildIdle /\ ReadyIdle
    /\ fkept = <<>>
    /\ fgiven = <<>>

ForwardNext == \E from \in Peers, reset \in BOOLEAN : MonitorAccept(from, reset)

SpecForward == ForwardInit /\ [][ForwardNext]_vars

-----------------------------------------------------------------------------
(* The descriptors of a native spawn.  spawn_native allocates the listener   *)
(* of the new process and the payload file, forks, and the child closes and  *)
(* moves descriptors before it executes the binary again.  A descriptor      *)
(* refers to "closed" or to an open file description, named by what it is;   *)
(* the payload file has one description, so its offset is shared by every    *)
(* descriptor duplicated from it.  After init a process holds its standard   *)
(* streams on 0..2, its listener on LISTENER_FD, the scheduler's socket (or  *)
(* /dev/null) on SCHEDULER_FD and the monitor's pipe on MONITOR_FD; above    *)
(* them the user's code has opened what it has opened.  Other threads of the *)
(* process open and close descriptors meanwhile, so a new descriptor gets    *)
(* any free number.  Under valgrind the descriptors from valgrind_start_fd   *)
(* are valgrind's own.  FdIter is taken to give the open descriptors other   *)
(* than that of the directory it reads, in ascending order.                  *)

LISTENER_FD == 3
ARG_FD == 4
SCHEDULER_FD == 4
MONITOR_FD == 5

Fds == 0 .. MaxFd

NoFd == MaxFd + 1

\* valgrind_start_fd()
ValgrindStartFd == MaxFd

\* the values spawn_native serializes into the payload
PayloadValues == <<"bridge", "parent", "start">>

AfterInit ==
    (0 :> "stdin") @@ (1 :> "stdout") @@ (2 :> "stderr") @@ (LISTENER_FD :> "listener")
        @@ (SCHEDULER_FD :> "scheduler") @@ (MONITOR_FD :> "monitor")

FreeFds == {fd \in Fds : kfds[fd] = "closed"}

LowestFree == CHOOSE fd \in FreeFds : \A other \in FreeFds : fd <= other

ChildOp(op) == kops' = Append(kops, op)

\* the operations that allocate memory: opendir, and fd_path, which gives a
\* PathBuf
Allocates(op) == op \in {"opendir", "fd_path"}

\* native_process_listener(): the socket of the new process
NativeProcessListener ==
    /\ kpc = "listener"
    /\ \E fd \in FreeFds :
          /\ klistener' = fd
          /\ kfds' = [kfds EXCEPT ![fd] = "new listener"]
    /\ kpc' = "memfd_create"
    /\ UNCHANGED <<kparent, kvalgrind, karg, koff, kdir, klast, kops>>
    /\ UNCHANGED nonChildVars

MemfdCreate ==
    /\ kpc = "memfd_create"
    /\ \E fd \in FreeFds :
          /\ karg' = fd
          /\ kfds' = [kfds EXCEPT ![fd] = "payload"]
    /\ koff' = 0
    /\ kpc' = "write_all"
    /\ UNCHANGED <<kparent, kvalgrind, klistener, kdir, klast, kops>>
    /\ UNCHANGED nonChildVars

WriteArg ==
    /\ kpc = "write_all"
    /\ koff' = koff + Len(PayloadValues)
    /\ kpc' = "lseek"
    /\ UNCHANGED <<kfds, kparent, kvalgrind, klistener, karg, kdir, klast, kops>>
    /\ UNCHANGED nonChildVars

Lseek ==
    /\ kpc = "lseek"
    /\ koff' = 0
    /\ kpc' = "fork"
    /\ UNCHANGED <<kfds, kparent, kvalgrind, klistener, karg, kdir, klast, kops>>
    /\ UNCHANGED nonChildVars

\* from here on kfds is the child's table
ChildFork ==
    /\ kpc = "fork"
    /\ kparent' = kfds
    /\ kpc' = "sigaction"
    /\ UNCHANGED <<kfds, kvalgrind, klistener, karg, koff, kdir, klast, kops>>
    /\ UNCHANGED nonChildVars

ChildSigaction ==
    /\ kpc = "sigaction"
    /\ ChildOp("sigaction")
    /\ kpc' = "is_valgrind"
    /\ UNCHANGED <<kfds, kparent, kvalgrind, klistener, karg, koff, kdir, klast>>
    /\ UNCHANGED nonChildVars

ChildIsValgrind ==
    /\ kpc = "is_valgrind"
    /\ ChildOp("is_valgrind")
    /\ kpc' = "FdIter::new"
    /\ UNCHANGED <<kfds, kparent, kvalgrind, klistener, karg, koff, kdir, klast>>
    /\ UNCHANGED nonChildVars

\* FdIter::new(): opendir of the process's descriptor directory
ChildFdIterNew ==
    /\ kpc = "FdIter::new"
    /\ ChildOp("opendir")
    /\ kdir' = LowestFree
    /\ kfds' = [kfds EXCEPT ![LowestFree] = "directory"]
    /\ kpc' = "loop"
    /\ klast' = -1
    /\ UNCHANGED <<kparent, kvalgrind, klistener, karg, koff>>
    /\ UNCHANGED nonChildVars

\* the descriptors FdIter has still to give
ToGive == {fd \in Fds : fd > klast /\ fd # kdir /\ kfds[fd] # "closed"}

\* the filter of the loop, sparing the runtime's own descriptors as well
ClosesAboveMonitor(fd) ==
    /\ fd > MONITOR_FD
    /\ fd # klistener
    /\ fd # karg
    /\ (~kvalgrind \/ fd < ValgrindStartFd)

\* the filter of the loop: the descriptors the child closes
Closes(fd) ==
    /\ fd >= 3
    /\ fd # klistener
    /\ fd # karg
    /\ (~kvalgrind \/ fd < ValgrindStartFd)

\* one round of the loop, or its end, where the FdIter is dropped
ChildLoop ==
    /\ kpc = "loop"
    /\ IF ToGive # {}
       THEN LET fd == CHOOSE fd \in ToGive : \A other \in ToGive : fd <= other
            IN  /\ klast' = fd
                /\ IF Closes(fd)
                   THEN /\ kfds' = [kfds EXCEPT ![fd] = "closed"]
                        /\ kops' = kops \o <<"readdir", "close">>
                   ELSE /\ ChildOp("readdir")
                        /\ UNCHANGED kfds
                /\ UNCHANGED <<kpc, kdir>>
       ELSE /\ kfds' = [kfds EXCEPT ![kdir] = "closed"]
            /\ kdir' = NoFd
            /\ kops' = kops \o <<"readdir", "closedir">>
            /\ kpc' = "move listener"
            /\ UNCHANGED klast
    /\ UNCHANGED <<kparent, kvalgrind, klistener, karg, koff>>
    /\ UNCHANGED nonChildVars

\* move_fd(oldfd, newfd, flags, true) on the table fds: palaver::dup_to and
\* then close; Err where oldfd is not open
MoveFd(fds, oldfd, newfd) ==
    IF fds[oldfd] = "closed"
    THEN [ok |-> FALSE, fds |-> fds, ops |-> <<"dup">>]
    ELSE [ok |-> TRUE,
          fds |-> [fds EXCEPT ![newfd] = fds[oldfd], ![oldfd] = "closed"],
          ops |-> <<"dup", "close">>]

ChildMove(oldfd, newfd, then) ==
    IF oldfd # newfd
    THEN LET moved == MoveFd(kfds, oldfd, newfd)
         IN  /\ kfds' = moved.fds
             /\ kops' = kops \o moved.ops
             /\ kpc' = IF moved.ok THEN then ELSE "panicked"
    ELSE /\ kpc' = then
         /\ UNCHANGED <<kfds, kops>>

ChildMoveListener ==
    /\ kpc = "move listener"
    /\ ChildMove(klistener, LISTENER_FD, "move arg")
    /\ UNCHANGED <<kparent, kvalgrind, klistener, karg, koff, kdir, klast>>
    /\ UNCHANGED nonChildVars

ChildMoveArg ==
    /\ kpc = "move arg"
    /\ ChildMove(karg, ARG_FD, "exec")
    /\ UNCHANGED <<kparent, kvalgrind, klistener, karg, koff, kdir, klast>>
    /\ UNCHANGED nonChildVars

\* execve, or under valgrind the binary opened, moved below valgrind's
\* descriptors and executed from there
ChildExec ==
    /\ kpc = "exec"
    /\ IF ~kvalgrind
       THEN /\ kops' = kops \o <<"is_valgrind", "execve">>
            /\ kpc' = "execve"
            /\ UNCHANGED kfds
       ELSE LET fd == LowestFree
                opened == [kfds EXCEPT ![fd] = "binary"]
                moved == MoveFd(opened, fd, ValgrindStartFd - 1)
            IN  IF ValgrindStartFd - 1 > fd
                THEN /\ kfds' = moved.fds
                     /\ kops' = kops \o <<"is_valgrind", "fd_path", "open">>
                                     \o moved.ops \o <<"fexecve">>
                     /\ kpc' = "fexecve"
                ELSE /\ kfds' = opened
                     /\ kops' = kops \o <<"is_valgrind", "fd_path", "open">>
                     /\ kpc' = "panicked"
    /\ UNCHANGED <<kparent, kvalgrind, klistener, karg, koff, kdir, klast>>
    /\ UNCHANGED nonChildVars

\* a process after init about to spawn: of the descriptors above MONITOR_FD
\* any may be open; the table has room for the listener, the payload file and
\* the directory
ChildInit ==
    /\ ChanIdle /\ SelIdle /\ BytesIdle /\ SpawnIdle /\ BridgeIdle /\ ParseIdle
    /\ CallsIdle /\ InputIdle /\ RandIdle /\ ReadyIdle /\ ForwardIdle
    /\ kvalgrind \in BOOLEAN
    /\ \E open \in SUBSET (MONITOR_FD + 1 .. MaxFd) :
          /\ kvalgrind => ValgrindStartFd \in open
          /\ Cardinality((MONITOR_FD + 1 .. MaxFd) \ open) >= 3
          /\ kfds = [fd \in Fds |->
                IF fd \in DOMAIN AfterInit THEN AfterInit[fd]
                ELSE IF fd \notin open THEN "closed"
                ELSE IF kvalgrind /\ fd >= ValgrindStartFd THEN "valgrind"
                ELSE "file"]
    /\ kparent = <<>>
    /\ kpc = "listener"
    /\ klistener = NoFd
    /\ karg = NoFd
    /\ koff = 0
    /\ kdir = NoFd
    /\ klast = 0
    /\ kops = <<>>

ChildNext ==
    \/ NativeProcessListener
    \/ MemfdCreate
    \/ WriteArg
    \/ Lseek
    \/ ChildFork
    \/ ChildSigaction
    \/ ChildIsValgrind
    \/ ChildFdIterNew
    \/ ChildLoop
    \/ ChildMoveListener
    \/ ChildMoveArg
    \/ ChildExec

SpecChild == ChildInit /\ [][ChildNext]_vars

-----------------------------------------------------------------------------
(* The byte-stream adapters: Write for &Sender<u8> and Read for              *)
(* &Receiver<u8>, over one endpoint pair.  A call is one step; a call that   *)
(* would park has no step until it can return.  How many of the following    *)
(* non-blocking sends or receives are possible at once is chosen freely.     *)

Bytes == {0, 1}

RECURSIVE SeqsUpTo(_)
\* the buffers of length at most n
SeqsUpTo(n) ==
    IF n = 0 THEN {<<>>}
    ELSE LET shorter == SeqsUpTo(n - 1)
         IN  shorter \cup {Append(b, x) : b \in shorter, x \in Bytes}

Bufs == SeqsUpTo(MaxBuf)

Ret(op, err, n) == [op |-> op, err |-> err, n |-> n]

RECURSIVE WriteLoop(_, _, _)
\* for i in 1 .. len: async_send is Some for the first `room` polls only
WriteLoop(len, i, room) ==
    IF i = len THEN len
    ELSE IF i <= room THEN WriteLoop(len, i + 1, room) ELSE i

\* write sending the whole of buf, room or not
WriteCountAll(buf, room) == Len(buf)

\* the count write returns
WriteCount(buf, room) ==
    IF buf = <<>> THEN 0
    ELSE IF Len(buf) = 1 THEN 1 ELSE WriteLoop(Len(buf), 1, room)

RECURSIVE ReadLoop(_, _, _)
\* for i in 1 .. len: async_recv yields a byte while one has arrived
ReadLoop(len, i, arrived) ==
    IF i = len THEN len
    ELSE IF i < arrived THEN ReadLoop(len, i + 1, arrived) ELSE i

\* the bytes sent reach the queue unless the receiving end is gone
Deliver(bytes) == IF bend = "deaf" THEN bq ELSE bq \o bytes

\* Write reporting buf.len() whatever was sent
WriteReportsLen(buf, room) ==
    /\ bend \in {"open", "deaf"}
    /\ Len(bwritten) + Len(buf) <= MaxStream
    /\ LET n == WriteCount(buf, room)
       IN  /\ bq' = Deliver(SubSeq(buf, 1, n))
           /\ bwritten' = bwritten \o buf
           /\ bret' = Ret("write", "none", Len(buf))
    /\ UNCHANGED <<bend, bread, blost>>
    /\ UNCHANGED nonByteVars

\* <&Sender<u8> as Write>::write(buf)
Write(buf, room) ==
    /\ bend \in {"open", "deaf"}
    /\ Len(bwritten) + Len(buf) <= MaxStream
    /\ LET n == WriteCount(buf, room)
       IN  /\ bq' = Deliver(SubSeq(buf, 1, n))
           /\ bwritten' = bwritten \o SubSeq(buf, 1, n)
           /\ bret' = Ret("write", "none", n)
    /\ UNCHANGED <<bend, bread, blost>>
    /\ UNCHANGED nonByteVars

\* <&Sender<u8> as Write>::write_all(buf)
WriteAll(buf) ==
    /\ bend \in {"open", "deaf"}
    /\ Len(bwritten) + Len(buf) <= MaxStream
    /\ bq' = Deliver(buf)
    /\ bwritten' = bwritten \o buf
    /\ bret' = Ret("write_all", "none", Len(buf))
    /\ UNCHANGED <<bend, bread, blost>>
    /\ UNCHANGED nonByteVars

\* every ChannelError read as the end of the stream
ErrorKindEof == "UnexpectedEof"

\* ChannelError::Exited => UnexpectedEof, ChannelError::Error => ConnectionReset
ErrorKind == IF bend = "exited" THEN "UnexpectedEof" ELSE "ConnectionReset"

\* <&Receiver<u8> as Read>::read(buf) with buf.len() = len
Read(len, arrived) ==
    /\ bend # "deaf"
    /\ arrived <= Len(bq)
    /\ IF len = 0
       THEN /\ bret' = Ret("read", "none", 0)
            /\ UNCHANGED <<bq, bread>>
       ELSE IF bq = <<>>
       THEN /\ bend # "open"
            /\ bret' = Ret("read", ErrorKind, 0)
            /\ UNCHANGED <<bq, bread>>
       ELSE LET n == IF len = 1 THEN 1 ELSE ReadLoop(len, 1, arrived)
            IN  /\ bread' = bread \o SubSeq(bq, 1, n)
                /\ bq' = SubSeq(bq, n + 1, Len(bq))
                /\ bret' = Ret("read", "none", n)
    /\ UNCHANGED <<bend, bwritten, blost>>
    /\ UNCHANGED nonByteVars

\* <&Receiver<u8> as Read>::read_exact(buf) with buf.len() = len
ReadExact(len) ==
    /\ bend # "deaf"
    /\ IF Len(bq) >= len
       THEN /\ bread' = bread \o SubSeq(bq, 1, len)
            /\ bq' = SubSeq(bq, len + 1, Len(bq))
            /\ bret' = Ret("read_exact", "none", len)
            /\ UNCHANGED blost
       ELSE /\ bend # "open"
            /\ blost' = blost \o bq
            /\ bq' = <<>>
            /\ bret' = Ret("read_exact", ErrorKind, 0)
            /\ UNCHANGED bread
    /\ UNCHANGED <<bend, bwritten>>
    /\ UNCHANGED nonByteVars

\* the Sender<u8> is dropped: end of stream follows the bytes sent
ByteSenderDrop ==
    /\ bend = "open"
    /\ bend' = "exited"
    /\ UNCHANGED <<bq, bwritten, bread, blost, bret>>
    /\ UNCHANGED nonByteVars

\* the sending process vanishes: the bytes not yet arrived, the last `cut`
\* of the queue, are lost
ByteSenderKilled(cut) ==
    /\ bend = "open"
    /\ cut <= Len(bq)
    /\ bend' = "error"
    /\ bq' = SubSeq(bq, 1, Len(bq) - cut)
    /\ UNCHANGED <<bwritten, bread, blost, bret>>
    /\ UNCHANGED nonByteVars

\* the Receiver<u8> is dropped: nothing is read any more
ByteReceiverDrop ==
    /\ bend = "open"
    /\ bend' = "deaf"
    /\ bq' = <<>>
    /\ UNCHANGED <<bwritten, bread, blost, bret>>
    /\ UNCHANGED nonByteVars

BytesInit == ChanIdle /\ SelIdle /\ BytesIdle /\ SpawnIdle /\ BridgeIdle /\ ParseIdle /\ CallsIdle /\ InputIdle /\ RandIdle /\ ChildIdle /\ ReadyIdle /\ ForwardIdle

BytesNext ==
    \/ \E buf \in Bufs, room \in 0 .. MaxBuf - 1 : Write(buf, room)
    \/ \E buf \in Bufs : WriteAll(buf)
    \/ \E len \in 0 .. MaxBuf, arrived \in 0 .. MaxStream : Read(len, arrived)
    \/ \E len \in 0 .. MaxBuf : ReadExact(len)
    \/ ByteSenderDrop
    \/ \E cut \in 0 .. MaxStream : ByteSenderKilled(cut)
    \/ ByteReceiverDrop

SpecBytes == BytesInit /\ [][BytesNext]_vars

-----------------------------------------------------------------------------
(* spawn and init.  Process i has pid SPid(i); the bridge of the fabric has  *)
(* BridgePid, a bridge forked by init the pid native_bridge returns.         *)
(* The payload on ARG_FD is the sequence of the values serialized into it,   *)
(* and deserialize_from takes the value at the front.  Under the fabric the  *)
(* scheduler answers a spawn request with Some(pid) or None and starts the   *)
(* new process with its SchedulerArg in front of the payload.                *)

SPid(i) == [ip |-> "127.0.0.1", port |-> i]

BridgePid == [ip |-> "127.0.0.1", port |-> 0]

SchedulerArg == [scheduler |-> "fabric"]

NoPid == [ip |-> "", port |-> 0]

SUnborn == {i \in Insts : sstage[i] = "unborn"}

\* SpawnArg with the two pids in the other order
SpawnArgSwapped(bridge_pid, our_pid, f) == <<our_pid, bridge_pid, f>>

\* spawn_arg of spawn_native, arg_ of spawn_deployed
SpawnArg(bridge_pid, our_pid, f) == <<bridge_pid, our_pid, f>>

\* spawn(resources, start) in process p; `some` is the scheduler's answer
\* under the fabric (natively the new process always starts)
Spawn(p, some) ==
    /\ sstage[p] \in {"main", "start"}
    /\ SUnborn # {}
    /\ Len(scalls) < MaxCalls
    /\ some \/ sdeployed
    /\ LET f == Len(scalls) + 1
           c == CHOOSE i \in SUnborn : \A j \in SUnborn : i <= j
           arg == SpawnArg(sbridge[p], SPid(p), f)
       IN  IF some
           THEN /\ sstage' = [sstage EXCEPT ![c] = "exec"]
                /\ sargfd' = [sargfd EXCEPT ![c] =
                                 IF sdeployed THEN <<SchedulerArg>> \o arg ELSE arg]
                /\ senv' = [senv EXCEPT ![c] = TRUE]
                /\ scalls' = Append(scalls, [caller |-> p, closure |-> f, child |-> c])
           ELSE /\ scalls' = Append(scalls, [caller |-> p, closure |-> f, child |-> 0])
                /\ UNCHANGED <<sstage, sargfd, senv>>
    /\ UNCHANGED <<sdeployed, sbridge, sforks, sruns, smain, sexit>>
    /\ UNCHANGED nonSpawnVars

\* init: what it reads from the environment and ARG_FD
InitSubprocess(i) ==
    IF sdeployed THEN Len(sargfd[i]) > 2 ELSE senv[i]

\* the pid of a bridge forked by the init of process i: native_bridge makes
\* a listener of its own
NativeBridge(i) == [ip |-> "127.0.0.1", port |-> MaxInsts + i]

\* ForksBridge in every process started natively
ForksBridgeAlways(i) == ~sdeployed

\* init has no bridge pid from ARG_FD: the native top process
ForksBridge(i) == ~sdeployed /\ ~senv[i]

InitBridge(i) ==
    IF sdeployed THEN sargfd[i][2]
    ELSE IF ForksBridge(i) THEN NativeBridge(i) ELSE sargfd[i][1]

InitArgument(i) ==
    IF sdeployed THEN SubSeq(sargfd[i], 3, Len(sargfd[i]))
    ELSE IF senv[i] THEN Tail(sargfd[i]) ELSE <<>>

\* init in the process just started: it returns to user main, or, in a
\* subprocess, invokes start(parent)
SpawnInit(i) ==
    /\ sstage[i] = "exec"
    /\ sbridge' = [sbridge EXCEPT ![i] = InitBridge(i)]
    /\ sforks' = IF ForksBridge(i)
                 THEN sforks \cup {[proc |-> i, pid |-> NativeBridge(i)]}
                 ELSE sforks
    /\ sargfd' = [sargfd EXCEPT ![i] = <<>>]
    /\ IF ~InitSubprocess(i)
       THEN /\ sstage' = [sstage EXCEPT ![i] = "main"]
            /\ smain' = [smain EXCEPT ![i] = TRUE]
            /\ UNCHANGED sruns
       ELSE LET parent == InitArgument(i)[1]
                start == InitArgument(i)[2]
            IN  /\ sstage' = [sstage EXCEPT ![i] = "start"]
                /\ sruns' = Append(sruns, [closure |-> start, proc |-> i, arg |-> parent])
                /\ UNCHANGED smain
    /\ UNCHANGED <<sdeployed, senv, sexit, scalls>>
    /\ UNCHANGED nonSpawnVars

\* start(parent) has returned: process::exit(0)
StartReturn(i) ==
    /\ sstage[i] = "start"
    /\ sstage' = [sstage EXCEPT ![i] = "exited"]
    /\ sexit' = [sexit EXCEPT ![i] = 0]
    /\ UNCHANGED <<sdeployed, sargfd, senv, sbridge, sforks, sruns, smain, scalls>>
    /\ UNCHANGED nonSpawnVars

\* user code ends the process itself: main returns or exits with a code, or
\* the closure panics or exits
UserEnd(i, code) ==
    /\ sstage[i] \in {"main", "start"}
    /\ sstage[i] = "start" => code # 0
    /\ sstage' = [sstage EXCEPT ![i] = "exited"]
    /\ sexit' = [sexit EXCEPT ![i] = code]
    /\ UNCHANGED <<sdeployed, sargfd, senv, sbridge, sforks, sruns, smain, scalls>>
    /\ UNCHANGED nonSpawnVars

\* the root process of the tree, started natively or by the fabric
SpawnInitial ==
    /\ ChanIdle /\ SelIdle /\ BytesIdle /\ BridgeIdle /\ ParseIdle /\ CallsIdle /\ InputIdle /\ RandIdle /\ ChildIdle /\ ReadyIdle /\ ForwardIdle
    /\ sdeployed \in BOOLEAN
    /\ sstage = [i \in Insts |-> IF i = 1 THEN "exec" ELSE "unborn"]
    /\ sargfd = [i \in Insts |->
                   IF i = 1 /\ sdeployed THEN <<SchedulerArg, BridgePid>> ELSE <<>>]
    /\ senv = [i \in Insts |-> i = 1 /\ sdeployed]
    /\ sbridge = [i \in Insts |-> NoPid]
    /\ sforks = {}
    /\ sruns = <<>>
    /\ smain = [i \in Insts |-> FALSE]
    /\ sexit = [i \in Insts |-> -1]
    /\ scalls = <<>>

SpawnNext ==
    \/ \E p \in Insts, some \in BOOLEAN : Spawn(p, some)
    \/ \E i \in Insts : SpawnInit(i)
    \/ \E i \in Insts : StartReturn(i)
    \/ \E i \in Insts, code \in {0, 1, 101} : UserEnd(i, code)

SpecSpawn == SpawnInitial /\ [][SpawnNext]_vars

-----------------------------------------------------------------------------
(* parse_binary_size (constellation-internal/src/ext.rs).  A string is the   *)
(* sequence of its characters, all of them ASCII, so that byte and character *)
(* positions agree.  A number is the sequence of its base-2^16 digits, least *)
(* significant first, without leading zero digits; a u64 has at most four.   *)
(* An overflowing u64 multiplication panics in a build with overflow checks  *)
(* and wraps in one without.                                                 *)

Limb == 2 ^ 16

U64Limbs == 64 \div 16

DigitChars == <<"0", "1", "2", "3", "4", "5", "6", "7", "8", "9">>

\* char::is_ascii_digit
IsAsciiDigit(ch) == \E d \in 1 .. 10 : DigitChars[d] = ch

DigitValue(ch) == (CHOOSE d \in 1 .. 10 : DigitChars[d] = ch) - 1

\* x * m + carry
RECURSIVE MulAdd(_, _, _)
MulAdd(x, m, carry) ==
    IF x = <<>>
    THEN (IF carry = 0 THEN <<>> ELSE <<carry % Limb>> \o MulAdd(<<>>, m, carry \div Limb))
    ELSE LET t == Head(x) * m + carry
         IN  <<t % Limb>> \o MulAdd(Tail(x), m, t \div Limb)

\* the number a string of decimal digits denotes
RECURSIVE DecimalValue(_)
DecimalValue(digits) ==
    IF digits = <<>> THEN <<>>
    ELSE MulAdd(DecimalValue(SubSeq(digits, 1, Len(digits) - 1)), 10,
                DigitValue(digits[Len(digits)]))

\* x * 1024^k
RECURSIVE MulPow1024(_, _)
MulPow1024(x, k) == IF k = 0 THEN x ELSE MulPow1024(MulAdd(x, 1024, 0), k - 1)

FitsU64(x) == Len(x) <= U64Limbs

RECURSIVE StripZeros(_)
StripZeros(x) ==
    IF x # <<>> /\ x[Len(x)] = 0 THEN StripZeros(SubSeq(x, 1, Len(x) - 1)) ELSE x

\* x modulo 2^64
WrapU64(x) == IF FitsU64(x) THEN x ELSE StripZeros(SubSeq(x, 1, U64Limbs))

\* Result<u64, ()>, and a panic of the call
ParseOk(v) == <<"Ok", v>>

ParseErr == <<"Err">>

ParsePanic(what) == <<"panic", what>>

NotCalled == <<"none">>

Builds == {"overflow-checks", "wrapping"}

\* str::parse::<u64> of a slice: Err for the empty string and on overflow
ParseU64(s) == IF s # <<>> /\ FitsU64(DecimalValue(s)) THEN ParseOk(DecimalValue(s)) ELSE ParseErr

\* .chars().position(|c| !c.is_ascii_digit()).unwrap_or(default), counted from
\* the character after position from
DigitsEnd(input, from, default) ==
    IF \E n \in from + 1 .. Len(input) : ~IsAsciiDigit(input[n])
    THEN (CHOOSE n \in from + 1 .. Len(input) :
             /\ ~IsAsciiDigit(input[n])
             /\ \A m \in from + 1 .. n - 1 : IsAsciiDigit(input[m])) - 1 - from
    ELSE default

\* match &input[index..]: the exponent k of the factor c = 1024^k, -1 for the
\* default arm
UnitExponent(suffix) ==
    IF suffix = <<"B">> THEN 0
    ELSE IF suffix = <<"K", "i", "B">> THEN 1
    ELSE IF suffix = <<"M", "i", "B">> THEN 2
    ELSE IF suffix = <<"G", "i", "B">> THEN 3
    ELSE IF suffix = <<"T", "i", "B">> THEN 4
    ELSE IF suffix = <<"P", "i", "B">> THEN 5
    ELSE IF suffix = <<"E", "i", "B">> THEN 6
    ELSE -1

\* Ok(a * c)
Multiply(a, k, build) ==
    IF FitsU64(MulPow1024(a, k)) THEN ParseOk(MulPow1024(a, k))
    ELSE IF build = "wrapping" THEN ParseOk(WrapU64(MulPow1024(a, k)))
    ELSE ParsePanic("attempt to multiply with overflow")

\* ParseAfterInteger computing a * c whatever the fractional part is
ParseAfterIntegerDropsFraction(input, index, a, build) ==
    LET dot == input[index + 1] = "."
        index1 == IF dot THEN index + 1 ELSE index
        index2 == IF dot THEN index1 + DigitsEnd(input, index1, Len(input) - index1)
                  ELSE index
        k == UnitExponent(SubSeq(input, index2 + 1, Len(input)))
    IN  IF index2 = Len(input) THEN ParseOk(a)
        ELSE IF k = -1 THEN ParseErr
        ELSE Multiply(a, k, build)

\* the part of parse_binary_size after the integer part: index is the number
\* of characters consumed so far, all of them digits
ParseAfterInteger(input, index, a, build) ==
    LET dot == input[index + 1] = "."
        index1 == IF dot THEN index + 1 ELSE index
        index2 == IF dot THEN index1 + DigitsEnd(input, index1, Len(input) - index1)
                  ELSE index
        b == IF dot /\ index2 # index1
             THEN ParseU64(SubSeq(input, index1 + 1, index2))
             ELSE ParseOk(<<>>)
        k == UnitExponent(SubSeq(input, index2 + 1, Len(input)))
    IN  IF b = ParseErr THEN ParsePanic("unwrap")
        ELSE IF index2 = Len(input) THEN ParseOk(a)
        ELSE IF k = -1 THEN ParseErr
        ELSE IF b # ParseOk(<<>>) THEN ParsePanic("not yet implemented")
        ELSE Multiply(a, k, build)

\* parse_binary_size
ParseBinarySize(input, build) ==
    IF Len(input) = 0 THEN ParseErr
    ELSE LET index == DigitsEnd(input, 0, Len(input))
             a == ParseU64(SubSeq(input, 1, index))
         IN  IF a = ParseErr THEN ParsePanic("unwrap")
             ELSE IF index = Len(input) THEN a
             ELSE ParseAfterInteger(input, index, a[2], build)

\* the characters of a decimal numeral given by its digits
Numeral(ds) == [n \in 1 .. Len(ds) |-> DigitChars[ds[n] + 1]]

\* integer parts: none, small ones, 2^4, 2^63, 2^64 - 1, 2^64
Numerals ==
    {<<>>} \cup
    {Numeral(ds) : ds \in {<<0>>, <<1>>, <<4>>, <<7>>, <<0, 7>>, <<1, 5>>, <<1, 6>>,
                           <<1, 2, 3>>, <<1, 0, 2, 4>>,
                           <<9, 2, 2, 3, 3, 7, 2, 0, 3, 6, 8, 5, 4, 7, 7, 5, 8, 0, 8>>,
                           <<1, 8, 4, 4, 6, 7, 4, 4, 0, 7, 3, 7, 0, 9, 5, 5, 1, 6, 1, 5>>,
                           <<1, 8, 4, 4, 6, 7, 4, 4, 0, 7, 3, 7, 0, 9, 5, 5, 1, 6, 1, 6>>}}

Fractions ==
    {<<>>, <<".">>, <<".", "0">>, <<".", "0", "0">>, <<".", "5">>, <<".", "0", "5">>,
     <<".", "5", ".">>}

UnitSuffixes ==
    {<<"B">>, <<"K", "i", "B">>, <<"M", "i", "B">>, <<"G", "i", "B">>,
     <<"T", "i", "B">>, <<"P", "i", "B">>, <<"E", "i", "B">>}

OtherSuffixes ==
    {<<"b">>, <<"K", "B">>, <<"k", "i", "b">>, <<"K", "i">>, <<"Z", "i", "B">>,
     <<"K", "i", "B", "B">>, <<" ", "K", "i", "B">>, <<"K", "i", "B", "1">>, <<"-">>}

ParseInputs ==
    {n \o f \o u : n \in Numerals, f \in Fractions,
                   u \in {<<>>} \cup UnitSuffixes \cup OtherSuffixes}

\* one call of parse_binary_size
Parse(build) ==
    /\ presult = NotCalled
    /\ presult' = ParseBinarySize(pinput, build)
    /\ UNCHANGED pinput
    /\ UNCHANGED nonParseVars

ParseInit ==
    /\ ChanIdle /\ SelIdle /\ BytesIdle /\ SpawnIdle /\ BridgeIdle /\ CallsIdle /\ InputIdle /\ RandIdle /\ ChildIdle /\ ReadyIdle /\ ForwardIdle
    /\ pinput \in ParseInputs
    /\ presult = NotCalled

ParseNext == \E build \in Builds : Parse(build)

SpecParse == ParseInit /\ [][ParseNext]_vars

-----------------------------------------------------------------------------
(* One process and the calls of its threads into the library, before and     *)
(* after init.  A panic ends the process.  A spawn call is followed step by  *)
(* step: the lock of SCHEDULER, the read of DEPLOYED, then natively the fork *)
(* and the write of the Spawn event to MONITOR_FD, under the fabric the      *)
(* request written to SCHEDULER_FD in three parts, the scheduler's answer    *)
(* and the write of the Spawn event.  serialize_into writes the event to     *)
(* the unbuffered file in two parts, the variant and the pid.                *)

Threads == 1 .. MaxThreads

Remotes == {"self", "peer"}

DiagMissingInit ==
    "You must call init() immediately inside your application's main() function"

\* pid(): local_addr().unwrap() on a LISTENER_FD that is no listening socket
DiagNoListener == "called Result::unwrap() on an Err value"

NoCall == [n |-> 0, fn |-> "none", arg |-> "none"]

\* the call returns, or panics with diagnostic d
Returns(fn, arg) ==
    /\ clast' = [n |-> clast.n + 1, fn |-> fn, arg |-> arg]
    /\ UNCHANGED <<cstate, cdiag>>

Panics(fn, arg, d) ==
    /\ clast' = [n |-> clast.n + 1, fn |-> fn, arg |-> arg]
    /\ cstate' = "aborted"
    /\ cdiag' = d

\* init: the listener is on LISTENER_FD, and DEPLOYED, RESOURCES, BRIDGE and
\* REACTOR are set
CallInit ==
    /\ cstate = "running"
    /\ clast.n < MaxLibCalls
    /\ ~cinit
    /\ \A t \in Threads : tpc[t] = "idle"
    /\ cinit' = TRUE
    /\ clistener' = TRUE
    /\ Returns("init", "none")
    /\ UNCHANGED <<cdeployed, cends, cmutex, tpc, tcall, csched, cmon, cforks>>
    /\ UNCHANGED <<tport, ckids, crets>>
    /\ UNCHANGED nonCallVars

\* Sender::new(remote) / Receiver::new(remote): the diagnostic of the panic
\* the call ends in, DiagNone if it returns
EndpointDiag(kind, remote) ==
    IF ~clistener THEN DiagNoListener
    ELSE IF remote = "self"
    THEN (IF kind = "Sender" THEN DiagSelfSender ELSE DiagSelfReceiver)
    ELSE IF ~cinit THEN DiagMissingInit
    ELSE IF <<kind, remote>> \in cends
    THEN (IF kind = "Sender" THEN DiagDupSender ELSE DiagDupReceiver)
    ELSE DiagNone

EndpointNew(kind, remote) ==
    /\ cstate = "running"
    /\ clast.n < MaxLibCalls
    /\ IF EndpointDiag(kind, remote) = DiagNone
       THEN /\ cends' = cends \cup {<<kind, remote>>}
            /\ Returns(kind, remote)
       ELSE /\ Panics(kind, remote, EndpointDiag(kind, remote))
            /\ UNCHANGED cends
    /\ UNCHANGED <<cinit, cdeployed, clistener, cmutex, tpc, tcall, csched, cmon,
                   cforks>>
    /\ UNCHANGED <<tport, ckids, crets>>
    /\ UNCHANGED nonCallVars

\* resources()
ResourcesCall ==
    /\ cstate = "running"
    /\ clast.n < MaxLibCalls
    /\ IF cinit THEN Returns("resources", "none")
       ELSE Panics("resources", "none", DiagMissingInit)
    /\ UNCHANGED <<cinit, cdeployed, clistener, cends, cmutex, tpc, tcall, csched,
                   cmon, cforks>>
    /\ UNCHANGED <<tport, ckids, crets>>
    /\ UNCHANGED nonCallVars

\* SpawnLock without the mutex
SpawnLockFree(t) ==
    /\ cstate = "running"
    /\ tpc[t] = "idle"
    /\ clast.n < MaxLibCalls
    /\ tpc' = [tpc EXCEPT ![t] = "locked"]
    /\ tcall' = [tcall EXCEPT ![t] = clast.n + 1]
    /\ Returns("spawn", "lock")
    /\ UNCHANGED cmutex
    /\ UNCHANGED <<cinit, cdeployed, clistener, cends, csched, cmon, cforks>>
    /\ UNCHANGED <<tport, ckids, crets>>
    /\ UNCHANGED nonCallVars

\* spawn, first statement: let _scheduler = SCHEDULER.lock().unwrap()
SpawnLock(t) ==
    /\ cstate = "running"
    /\ tpc[t] = "idle"
    /\ clast.n < MaxLibCalls
    /\ cmutex = 0
    /\ cmutex' = t
    /\ tpc' = [tpc EXCEPT ![t] = "locked"]
    /\ tcall' = [tcall EXCEPT ![t] = clast.n + 1]
    /\ Returns("spawn", "lock")
    /\ UNCHANGED <<cinit, cdeployed, clistener, cends, csched, cmon, cforks>>
    /\ UNCHANGED <<tport, ckids, crets>>
    /\ UNCHANGED nonCallVars

\* spawn, second statement: DEPLOYED is read, or the call panics
SpawnCheck(t) ==
    /\ cstate = "running"
    /\ tpc[t] = "locked"
    /\ IF cinit
       THEN /\ tpc' = [tpc EXCEPT ![t] = "checked"]
            /\ UNCHANGED <<cstate, cdiag, clast>>
       ELSE /\ Panics("spawn", "check", DiagMissingInit)
            /\ UNCHANGED tpc
    /\ UNCHANGED <<cinit, cdeployed, clistener, cends, cmutex, tcall, csched, cmon,
                   cforks>>
    /\ UNCHANGED <<tport, ckids, crets>>
    /\ UNCHANGED nonCallVars

\* natively a pid is the loopback address and the port of the listener
NativePid(port) == [ip |-> "127.0.0.1", port |-> port]

\* spawn_native: native_process_listener gives the child's listener and its
\* port, then fork
SpawnFork(t) ==
    /\ cstate = "running"
    /\ tpc[t] = "checked"
    /\ ~cdeployed
    /\ \E port \in Ports :
          /\ tport' = [tport EXCEPT ![t] = port]
          /\ ckids' = Append(ckids, [call |-> tcall[t], port |-> port])
    /\ cforks' = cforks + 1
    /\ tpc' = [tpc EXCEPT ![t] = "forked"]
    /\ UNCHANGED <<cinit, cdeployed, clistener, cends, cstate, cdiag, clast, cmutex,
                   tcall, csched, cmon>>
    /\ UNCHANGED crets
    /\ UNCHANGED nonCallVars

\* the parts of the request of spawn_deployed, each flushed to SCHEDULER_FD on
\* its own: resources, arguments, environment and length; the binary; the
\* argument
RequestParts == <<"header", "binary", "arg">>

PartAfter(pc) ==
    IF pc = "checked" THEN "header" ELSE IF pc = "header" THEN "binary" ELSE "arg"

\* spawn_deployed: the next part of the request goes to SCHEDULER_FD
SpawnRequest(t) ==
    /\ cstate = "running"
    /\ cdeployed
    /\ tpc[t] \in {"checked", "header", "binary"}
    /\ csched' = Append(csched, [thread |-> t, call |-> tcall[t], part |-> PartAfter(tpc[t])])
    /\ tpc' = [tpc EXCEPT ![t] = PartAfter(tpc[t])]
    /\ UNCHANGED <<cinit, cdeployed, clistener, cends, cstate, cdiag, clast, cmutex,
                   tcall, cmon, cforks>>
    /\ UNCHANGED <<tport, ckids, crets>>
    /\ UNCHANGED nonCallVars

\* the guard _scheduler is dropped when spawn returns
Unlock(t) == IF cmutex = t THEN 0 ELSE cmutex

\* spawn_deployed: the scheduler's answer is read; with None spawn returns
SpawnReply(t, some) ==
    /\ cstate = "running"
    /\ tpc[t] = "arg"
    /\ IF some
       THEN /\ tpc' = [tpc EXCEPT ![t] = "replied"]
            /\ \E port \in Ports : tport' = [tport EXCEPT ![t] = port]
            /\ UNCHANGED cmutex
       ELSE /\ tpc' = [tpc EXCEPT ![t] = "idle"]
            /\ cmutex' = Unlock(t)
            /\ UNCHANGED tport
    /\ UNCHANGED <<cinit, cdeployed, clistener, cends, cstate, cdiag, clast, tcall,
                   csched, cmon, cforks>>
    /\ UNCHANGED <<ckids, crets>>
    /\ UNCHANGED nonCallVars

\* the pid of the process being spawned by thread t
NewPid(t) == NativePid(tport[t])

\* spawn returns at once after the fork, Some(new_pid), with no event written
SpawnReturnsUnwritten(t) ==
    /\ cstate = "running"
    /\ tpc[t] \in {"forked", "replied", "variant"}
    /\ crets' = Append(crets, [thread |-> t, call |-> tcall[t], pid |-> NewPid(t)])
    /\ tpc' = [tpc EXCEPT ![t] = "idle"]
    /\ cmutex' = Unlock(t)
    /\ UNCHANGED <<cinit, cdeployed, clistener, cends, cstate, cdiag, clast, tcall,
                   csched, cmon, cforks>>
    /\ UNCHANGED <<tport, ckids>>
    /\ UNCHANGED nonCallVars

\* the Spawn event goes to MONITOR_FD, the variant and then the pid; after
\* the pid spawn returns Some(new_pid)
SpawnWriteEvent(t) ==
    /\ cstate = "running"
    /\ tpc[t] \in {"forked", "replied", "variant"}
    /\ IF tpc[t] = "variant"
       THEN /\ cmon' = Append(cmon, [thread |-> t, call |-> tcall[t], part |-> "pid",
                                     pid |-> NewPid(t)])
            /\ crets' = Append(crets, [thread |-> t, call |-> tcall[t],
                                       pid |-> NewPid(t)])
            /\ tpc' = [tpc EXCEPT ![t] = "idle"]
            /\ cmutex' = Unlock(t)
       ELSE /\ cmon' = Append(cmon, [thread |-> t, call |-> tcall[t], part |-> "variant",
                                     pid |-> NewPid(t)])
            /\ tpc' = [tpc EXCEPT ![t] = "variant"]
            /\ UNCHANGED <<cmutex, crets>>
    /\ UNCHANGED <<cinit, cdeployed, clistener, cends, cstate, cdiag, clast, tcall,
                   csched, cforks>>
    /\ UNCHANGED <<tport, ckids>>
    /\ UNCHANGED nonCallVars

\* a process just started: natively or under the fabric, with LISTENER_FD a
\* listener (a spawned process) or not (what the launcher left there)
CallsInit ==
    /\ ChanIdle /\ SelIdle /\ BytesIdle /\ SpawnIdle /\ BridgeIdle /\ ParseIdle
    /\ InputIdle /\ RandIdle /\ ChildIdle /\ ReadyIdle /\ ForwardIdle
    /\ cinit = FALSE
    /\ cdeployed \in BOOLEAN
    /\ clistener \in BOOLEAN
    /\ cends = {}
    /\ cstate = "running"
    /\ cdiag = DiagNone
    /\ clast = NoCall
    /\ cmutex = 0
    /\ tpc = [t \in Threads |-> "idle"]
    /\ tcall = [t \in Threads |-> 0]
    /\ csched = <<>>
    /\ cmon = <<>>
    /\ cforks = 0
    /\ tport = [t \in Threads |-> 0]
    /\ ckids = <<>>
    /\ crets = <<>>

CallsNext ==
    \/ CallInit
    \/ \E kind \in {"Sender", "Receiver"}, remote \in Remotes : EndpointNew(kind, remote)
    \/ ResourcesCall
    \/ \E t \in Threads : SpawnLock(t)
    \/ \E t \in Threads : SpawnCheck(t)
    \/ \E t \in Threads : SpawnFork(t)
    \/ \E t \in Threads : SpawnRequest(t)
    \/ \E t \in Threads, some \in BOOLEAN : SpawnReply(t, some)
    \/ \E t \in Threads : SpawnWriteEvent(t)

SpecCalls == CallsInit /\ [][CallsNext]_vars

-----------------------------------------------------------------------------
(* Histories.                                                              *)

IsPrefix(s, t) == Len(s) <= Len(t) /\ s = SubSeq(t, 1, Len(s))

RECURSIVE OkValues(_)
OkValues(history) ==
    IF history = <<>> THEN <<>>
    ELSE IF IsOk(Head(history))
         THEN <<Head(history)[2]>> \o OkValues(Tail(history))
         ELSE OkValues(Tail(history))

HasResult(history, r) == \E i \in 1 .. Len(history) : history[i] = r

-----------------------------------------------------------------------------
(* C1: on every endpoint pair the results of recv are Ok(v1)..Ok(vk) for a *)
(* prefix v1..vk of the values passed to send, in order, followed by at    *)
(* most a channel error; no value is duplicated, dropped from the middle   *)
(* or reordered, and no value follows a channel error.                     *)
C1_OrderedDelivery ==
    \A pr \in Pairs :
        /\ IsPrefix(OkValues(got[pr]), sent[pr])
        /\ \A i \in 1 .. Len(got[pr]) - 1 : IsOk(got[pr][i])

\* Two different values, one of them with a two-byte payload, received in
\* the order sent and followed by Exited.
C1_Witness ==
    \E pr \in Pairs :
        /\ sent[pr] = <<2, 1>>
        /\ got[pr] = <<Ok(2), Ok(1), Exited>>

(* C2: a second Sender (Receiver) to a remote whose first Sender (Receiver)*)
(* is live aborts the process with the duplicate diagnostic; a remote      *)
(* never has two live handles of one direction in a process.               *)
C2_DuplicateEndpointAborts ==
    /\ [](\A p \in Procs, r \in Pids : senders[p][r] <= 1 /\ receivers[p][r] <= 1)
    /\ [][\A p \in Procs, r \in Pids :
            /\ (senders[p][r] = 1 /\ SenderNew(p, r))
                    => (alive'[p] = "stopped" /\ diag'[p] = DiagDupSender)
            /\ (receivers[p][r] = 1 /\ ReceiverNew(p, r))
                    => (alive'[p] = "stopped" /\ diag'[p] = DiagDupReceiver)]_vars

\* A process stopped by the duplicate diagnostic while its peer goes on.
C2_Witness ==
    \E p \in Procs : ~Running(p) /\ diag[p] = DiagDupSender

(* C3: Sender::new / Receiver::new with the process's own pid abort the    *)
(* process with the self-channel diagnostic; that call registers no        *)
(* endpoint and puts nothing in a send queue or on a socket, and no        *)
(* process ever holds an endpoint to itself.                               *)
C3_SelfChannelAborts ==
    /\ [](\A p \in Procs :
            /\ senders[p][PidOf(p)] = 0 /\ receivers[p][PidOf(p)] = 0
            /\ sent[<<p, p>>] = <<>> /\ sendq[<<p, p>>] = <<>> /\ inbox[<<p, p>>] = <<>>)
    /\ [][\A p \in Procs :
            /\ SenderNew(p, PidOf(p))
                    => /\ alive'[p] = "stopped" /\ diag'[p] = DiagSelfSender
                       /\ UNCHANGED <<sendq, inbox, sent>>
                       /\ \A r \in Pids : senders'[p][r] = 0 /\ receivers'[p][r] = 0
            /\ ReceiverNew(p, PidOf(p))
                    => /\ alive'[p] = "stopped" /\ diag'[p] = DiagSelfReceiver
                       /\ UNCHANGED <<sendq, inbox, sent>>
                       /\ \A r \in Pids : senders'[p][r] = 0 /\ receivers'[p][r] = 0]_vars

\* A process aborted by Sender::new(pid()) while it held an endpoint to its peer.
C3_Witness ==
    \E p \in Procs :
        /\ diag[p] = DiagSelfSender
        /\ \E q \in Procs \ {p} : sent[<<p, q>>] # <<>>

(* C6: once the Sender in a to b has been dropped, a Receiver in b from a   *)
(* that keeps calling recv (b alive, the Receiver not dropped) eventually  *)
(* gets Exited; and when it gets Exited it has received every value sent.  *)
C6_DropLeadsToExited ==
    /\ \A pr \in Pairs :
          (/\ PidOf(pr[2]) \in closedS[pr[1]]
           /\ Running(pr[2])
           /\ receivers[pr[2]][PidOf(pr[1])] = 1)
             ~> (\/ HasResult(got[pr], Exited)
                 \/ ~Running(pr[2])
                 \/ receivers[pr[2]][PidOf(pr[1])] = 0)
    /\ [](\A pr \in Pairs :
            HasResult(got[pr], Exited) => OkValues(got[pr]) = sent[pr])

\* The Sender was dropped after two sends and the live Receiver got both
\* values and then Exited.
C6_Witness ==
    \E pr \in Pairs :
        /\ PidOf(pr[2]) \in closedS[pr[1]]
        /\ Running(pr[2])
        /\ Len(sent[pr]) = 2
        /\ got[pr] = <<Ok(sent[pr][1]), Ok(sent[pr][2]), Exited>>

Held(seq) == {seq[i] : i \in 1 .. Len(seq)}

C4_SelectCommitsOne ==
    /\ [](Cardinality(Held(selHeld)) = Len(selHeld))
    /\ [][selCalls' = selCalls + 1 =>
            /\ selHeld # <<>>
            /\ Len(selHeld') = Len(selHeld) - 1
            /\ \E t \in Held(selHeld) :
                  /\ selTokens'[t].commits = selTokens[t].commits + 1
                  /\ Held(selHeld') = Held(selHeld) \ {t}
                  /\ \A u \in Held(selHeld') : selTokens'[u] = selTokens[u]]_vars

\* two select calls have returned and left one of three tokens uncommitted
C4_Witness ==
    /\ selCalls = 2
    /\ Len(selHeld) = 1
    /\ Len(selTokens) = 3
    /\ selTokens[selHeld[1]].commits = 0


\* the status instance i has reported to the bridge
Reported(i) ==
    IF mon[i] \in {"exit_sent", "acked", "terminated"}
    THEN FromWait(ustatus[i]) ELSE NoStatus

C10_ExitsWhenEmpty ==
    bridge # "running" =>
        /\ processes = <<>>
        /\ nExits = nAdded
        /\ bridgeCode = exit_code


(* C8: the bytes that write and write_all report as written are, byte for   *)
(* byte and in order, the bytes that read and read_exact return, up to the   *)
(* point where the remote closes: what has been read is always a prefix of   *)
(* what was reported written, and while both ends live, and after a clean    *)
(* close of the sender, nothing is missing, doubled or out of order.         *)
C8_ByteStreamEqual ==
    /\ IsPrefix(bread, bwritten)
    /\ bend = "open" => bwritten = bread \o bq
    /\ bend = "exited" => bwritten = bread \o blost \o bq
    /\ (bend = "exited" /\ bq = <<>> /\ blost = <<>>) => bread = bwritten

\* a short write of two bytes out of three, later a read that returned the
\* third byte alone, and the sender closed with everything read
C8_Witness ==
    /\ bend = "exited"
    /\ bwritten = <<0, 1, 1>>
    /\ bread = bwritten
    /\ bq = <<>>
    /\ bret = Ret("read", "none", 1)


\* the invocations of the closure of spawn call k
RunsOf(k) == {j \in 1 .. Len(sruns) : sruns[j].closure = scalls[k].closure}

(* C9: the closure given to spawn is never run in the calling process; in   *)
(* the spawned child it is invoked exactly once, by init, with the pid of    *)
(* the caller; the child's main body after init is never run, and when the   *)
(* closure returns the child exits with status 0.                            *)
C9_ClosureRunsOnceInChild ==
    /\ [](\A k \in 1 .. Len(scalls) :
            LET call == scalls[k]
            IN  /\ \A j \in RunsOf(k) :
                      /\ sruns[j].proc # call.caller
                      /\ sruns[j].proc = call.child
                      /\ sruns[j].arg = SPid(call.caller)
                /\ Cardinality(RunsOf(k)) <= 1
                /\ call.child = 0 => RunsOf(k) = {}
                /\ call.child # 0 =>
                      /\ sstage[call.child] \in {"exec", "start", "exited"}
                      /\ ~smain[call.child]
                      /\ sstage[call.child] # "exec" => Cardinality(RunsOf(k)) = 1)
    /\ [][\A i \in Insts : StartReturn(i) =>
            sstage'[i] = "exited" /\ sexit'[i] = 0 /\ ~smain'[i]]_vars

\* a spawned process has itself spawned: the third process ran the second
\* closure with the second process's pid and has exited with status 0
C9_Witness ==
    /\ Len(scalls) = 2
    /\ scalls[2] = [caller |-> 2, closure |-> 2, child |-> 3]
    /\ sruns = <<[closure |-> 1, proc |-> 2, arg |-> SPid(1)],
                 [closure |-> 2, proc |-> 3, arg |-> SPid(2)]>>
    /\ sstage[3] = "exited"
    /\ sexit[3] = 0

\* the bridge has exited after the Exit events of three processes, one of
\* them announced by a process other than the root and killed by a signal
C10_Witness ==
    /\ bridge = "exited"
    /\ nAdded = 3
    /\ nExits = 3
    /\ processes = <<>>
    /\ bridgeCode = ErrorSignal(9)
    /\ ustatus[3] = <<"Signaled", 9>>

-----------------------------------------------------------------------------
\* the statuses of the Exit events in the bridge's output, in the order written
ExitsWritten ==
    LET exits == SelectSeq(bout, LAMBDA e : e.event[1] = "Exit")
    IN  [n \in 1 .. Len(exits) |-> exits[n].event[3]]

\* the first status of the sequence that is an error, Success if there is none
RECURSIVE FirstError(_)
FirstError(sts) ==
    IF sts = <<>> THEN Success
    ELSE IF Head(sts) # Success THEN Head(sts)
    ELSE FirstError(Tail(sts))

(* C11: the operator that combines exit statuses has Success as its identity *)
(* on both sides, an error operand always wins over Success, combining is    *)
(* associative, and statuses combined in the order observed give the first   *)
(* error observed: the bridge's exit_code is the first error among the Exit  *)
(* events it has handled, Success if there is none.                          *)
C11_FirstErrorKept ==
    /\ \A x \in Statuses : AddStatus(Success, x) = x /\ AddStatus(x, Success) = x
    /\ \A x, y \in Statuses :
          x # Success => AddStatus(x, y) # Success /\ AddStatus(y, x) # Success
    /\ \A a, b, c \in Statuses :
          /\ AddStatus(AddStatus(a, b), c) = AddStatus(a, AddStatus(b, c))
          /\ AddStatus(AddStatus(a, b), c) = FirstError(<<a, b, c>>)
    /\ exit_code = FirstError(ExitsWritten)

\* the bridge has combined two different errors and kept the first
C11_Witness ==
    /\ Len(ExitsWritten) = 2
    /\ ExitsWritten[1] # Success
    /\ ExitsWritten[2] # Success
    /\ ExitsWritten[1] # ExitsWritten[2]
    /\ exit_code = ExitsWritten[1]

-----------------------------------------------------------------------------
\* the events the bridge has written for instance i, in the order written
WrittenFor(i) ==
    LET mine == SelectSeq(bout, LAMBDA e : e.from = i)
    IN  [n \in 1 .. Len(mine) |-> mine[n].event]

\* the bridge receives in this step: an event leaves a channel from a monitor
Received(p) == Len(mq'[p]) < Len(mq[p])

(* C12: the bridge writes exactly one DeployOutputEvent for every            *)
(* ProcessOutputEvent it receives, in the order of receipt: the step that    *)
(* takes an event from a monitor's channel appends the event made of it to   *)
(* the end of the output, and no other step changes the output; and what has *)
(* been written for one process is, at any time, the beginning of what its   *)
(* monitor has sent, event by event.                                         *)
C12_OneOutputPerEventInOrder ==
    /\ [][IF \E p \in Ports : Received(p)
          THEN \E p \in Ports :
                  /\ Received(p)
                  /\ bout' = Append(bout, [from |-> InstOf(p),
                                           event |-> DeployOutputEvent(p, Head(mq[p]))])
          ELSE bout' = bout]_vars
    /\ [](\A i \in Insts :
            /\ Len(WrittenFor(i)) <= Len(msent[i])
            /\ \A n \in 1 .. Len(WrittenFor(i)) :
                  WrittenFor(i)[n] = DeployOutputEvent(uport[i], msent[i][n]))

\* the output holds an event of the first process, then one of the second,
\* then a Spawn, a non-empty Output and the Exit of the first
C12_Witness ==
    /\ \E a, b, c \in 1 .. Len(bout) :
          /\ a < b /\ b < c
          /\ bout[a].from = 1 /\ bout[b].from = 2 /\ bout[c].from = 1
    /\ \E a, b, c \in 1 .. Len(WrittenFor(1)) :
          /\ WrittenFor(1)[a][1] = "Spawn"
          /\ WrittenFor(1)[b][1] = "Output" /\ WrittenFor(1)[b][4] # <<>>
          /\ WrittenFor(1)[c][1] = "Exit"

-----------------------------------------------------------------------------
\* the events of a sequence of ProcessOutputEvents or DeployOutputEvents that
\* are Exit events
ExitsIn(events) == {n \in 1 .. Len(events) : events[n][1] = "Exit"}

\* the instances that have run
Born == {i \in Insts : uproc[i] \in {"running", "exited"}}

-----------------------------------------------------------------------------
\* the input as the claims about parse_binary_size read it: an integer part,
\* a fractional part (a point and the digits after it) and a suffix
IntegerPart(input) == SubSeq(input, 1, DigitsEnd(input, 0, Len(input)))

HasFraction(input) ==
    Len(IntegerPart(input)) < Len(input) /\ input[Len(IntegerPart(input)) + 1] = "."

FractionDigits(input) ==
    IF HasFraction(input)
    THEN LET from == Len(IntegerPart(input)) + 1
         IN  SubSeq(input, from + 1, from + DigitsEnd(input, from, Len(input) - from))
    ELSE <<>>

SuffixPart(input) ==
    SubSeq(input,
           Len(IntegerPart(input)) + Len(FractionDigits(input))
               + (IF HasFraction(input) THEN 1 ELSE 0) + 1,
           Len(input))

\* B, KiB, MiB, ... in the order of their powers of 1024
UnitOrder ==
    <<<<"B">>, <<"K", "i", "B">>, <<"M", "i", "B">>, <<"G", "i", "B">>,
      <<"T", "i", "B">>, <<"P", "i", "B">>, <<"E", "i", "B">>>>

PowerOf(suffix) ==
    IF suffix = <<>> THEN 0 ELSE (CHOOSE k \in 1 .. 7 : UnitOrder[k] = suffix) - 1

\* the input is a non-empty digit string with at most a unit suffix
DigitsAndUnit(input) ==
    /\ IntegerPart(input) # <<>>
    /\ ~HasFraction(input)
    /\ SuffixPart(input) \in {<<>>} \cup UnitSuffixes

\* a * 1024^k for such an input
SizeOf(input) == MulPow1024(DecimalValue(IntegerPart(input)), PowerOf(SuffixPart(input)))

(* C13: for every input that is a non-empty string of decimal digits a with  *)
(* at most one suffix among B, KiB, MiB, GiB, TiB, PiB, EiB after it,        *)
(* parse_binary_size returns Ok(a * 1024^k), k = 0 for no suffix and for B,  *)
(* k = 1..6 for KiB..EiB.                                                    *)
C13_DigitsAndUnitGiveProduct ==
    presult # NotCalled /\ DigitsAndUnit(pinput) => presult = ParseOk(SizeOf(pinput))

\* C13 where a * 1024^k is below 2^64: there the function returns the product
C13_ProductBelowOverflow ==
    presult # NotCalled /\ DigitsAndUnit(pinput) /\ FitsU64(SizeOf(pinput))
        => presult = ParseOk(SizeOf(pinput))

\* "7GiB" has given 7 * 1024^3 = 1 * 2^32 + 49152 * 2^16
C13_Witness ==
    /\ pinput = <<"7", "G", "i", "B">>
    /\ presult = ParseOk(<<0, 49152, 1>>)

\* the input has a unit suffix after a fractional part
FractionAndUnit(input) ==
    /\ IntegerPart(input) # <<>>
    /\ HasFraction(input)
    /\ SuffixPart(input) \in UnitSuffixes

\* the input has a suffix that is no unit
UnknownSuffix(input) ==
    /\ IntegerPart(input) # <<>>
    /\ SuffixPart(input) \notin {<<>>} \cup UnitSuffixes

-----------------------------------------------------------------------------
(* C16: run(tokens) with n tokens makes exactly n select calls, each of      *)
(* which commits one token, so that it returns only when the collection is   *)
(* empty and every token passed has been committed exactly once; run of an   *)
(* empty collection returns without a select call and without a commit; and  *)
(* run returns, provided the tokens it waits for become ready.               *)
C16_RunCommitsEveryTokenOnce ==
    /\ [](selRun.state = "running" =>
            /\ selRun.rounds + Len(selHeld) = Len(selRun.tokens)
            /\ selCalls = selRun.calls + selRun.rounds
            /\ \A t \in Held(selRun.tokens) :
                  selTokens[t].commits = IF t \in Held(selHeld) THEN 0 ELSE 1)
    /\ [][selRun.state = "running" /\ selRun'.state = "returned" =>
            /\ selHeld = <<>>
            /\ selRun.rounds = Len(selRun.tokens)
            /\ selCalls = selRun.calls + Len(selRun.tokens)
            /\ \A t \in Held(selRun.tokens) : selTokens[t].commits = 1
            /\ UNCHANGED <<selTokens, selCalls, selHeld>>]_vars
    /\ (selRun.state = "running") ~> (selRun.state = "returned")

\* run has returned after three select calls on three tokens
C16_Witness ==
    /\ selRun.state = "returned"
    /\ Len(selRun.tokens) = 3
    /\ selRun.rounds = 3
    /\ selCalls = 3

(* C17: select commits only a token that is ready when it is committed:      *)
(* every commit is of one held token that is ready, while no held token is   *)
(* ready no select call returns and no token is committed, and when a held   *)
(* token is ready a select call can return.                                  *)
C17_CommitsOnlyReady ==
    /\ [][/\ selCalls' # selCalls \/ (\E t \in 1 .. Len(selTokens) :
                                        selTokens'[t] # selTokens[t]) =>
                \E t \in Held(selHeld) \cap selReady :
                    /\ selTokens'[t].commits = selTokens[t].commits + 1
                    /\ \A u \in 1 .. Len(selTokens) :
                          u # t => selTokens'[u] = selTokens[u]
          /\ Held(selHeld) \cap selReady = {} =>
                /\ selCalls' = selCalls
                /\ \A t \in 1 .. Len(selTokens) : selTokens'[t] = selTokens[t]]_vars
    /\ [](Held(selHeld) \cap selReady # {} => ENABLED (Select \/ RunSelect))

\* a select call on three tokens has returned while two of them were not ready
C17_Witness ==
    /\ selCalls = 1
    /\ selRun.state = "none"
    /\ Len(selHeld) = 2
    /\ Held(selHeld) \cap selReady = {}

\* how many times the value of send token t was handed to the peer
Deliveries(t) == Cardinality({n \in 1 .. Len(selOut) : selOut[n].token = t})

(* C18: a committed selectable_send has had its producer invoked exactly     *)
(* once and the value it returned handed to the peer once and no more; a     *)
(* committed selectable_recv has had its consumer invoked exactly once, with *)
(* the result that was waiting on its channel; the closure of a token that   *)
(* has not been committed has not been invoked, and a select call invokes    *)
(* the closure of the token it commits only.                                 *)
C18_ClosureInvokedOnce ==
    /\ [](\A t \in 1 .. Len(selTokens) :
            /\ selTokens[t].calls = selTokens[t].commits
            /\ selTokens[t].calls <= 1
            /\ selTokens[t].calls = 0 => selTokens[t].arg = NoArg
            /\ selTokens[t].kind = "send" =>
                  /\ Deliveries(t) = selTokens[t].calls
                  /\ \A n \in 1 .. Len(selOut) :
                        selOut[n].token = t => selTokens[t].arg = Produced(selOut[n].value)
            /\ selTokens[t].kind = "recv" => Deliveries(t) = 0)
    /\ [][\A t \in 1 .. Len(selTokens) :
            selTokens'[t].calls # selTokens[t].calls =>
                /\ selCalls' = selCalls + 1
                /\ selTokens[t].kind = "recv" =>
                      selIn[t] \in Results /\ selTokens'[t].arg = selIn[t]
                /\ \A u \in 1 .. Len(selTokens) :
                      u # t => selTokens'[u].calls = selTokens[u].calls]_vars

\* of three tokens a send has handed over its value, a recv has given Exited
\* to its consumer, and the third has not been committed
C18_Witness ==
    /\ Len(selTokens) = 3
    /\ \E s, r, u \in 1 .. 3 :
          /\ selTokens[s].kind = "send" /\ selTokens[s].calls = 1 /\ Deliveries(s) = 1
          /\ selTokens[r].kind = "recv" /\ selTokens[r].calls = 1
          /\ selTokens[r].arg = Exited
          /\ selTokens[u].commits = 0 /\ selTokens[u].calls = 0 /\ u \in selReady


(* C19: every fatal programming error ends the process with a diagnostic     *)
(* that names the invariant broken: Sender::new, Receiver::new, spawn and    *)
(* resources before init give the missing-init diagnostic (spawn before any  *)
(* fork and before anything is written to the scheduler), a second Sender to *)
(* a pid the duplicate-Sender diagnostic, a second Receiver from a pid the   *)
(* duplicate-Receiver diagnostic, and an endpoint to the process's own pid   *)
(* the self-channel diagnostic.  An endpoint to the own pid made before init *)
(* may give either of the two diagnostics that apply.                        *)
Named(d) ==
    IF d = DiagMissingInit THEN {"missing init"}
    ELSE IF d \in {DiagSelfSender, DiagSelfReceiver} THEN {"self-channel"}
    ELSE IF d = DiagDupSender THEN {"duplicate Sender"}
    ELSE {}

AbortsNaming(what) == cstate' = "aborted" /\ Named(cdiag') \cap what # {}

C19_DiagnosticNamesInvariant ==
    [][clast'.n # clast.n =>
        LET fn == clast'.fn
            arg == clast'.arg
            endpoint == fn \in {"Sender", "Receiver"}
        IN  /\ ~cinit /\ endpoint /\ arg # "self" => AbortsNaming({"missing init"})
            /\ ~cinit /\ endpoint /\ arg = "self"
                  => AbortsNaming({"missing init", "self-channel"})
            /\ ~cinit /\ fn = "resources" => AbortsNaming({"missing init"})
            /\ ~cinit /\ fn = "spawn" /\ arg = "check"
                  => /\ AbortsNaming({"missing init"})
                     /\ cforks' = 0 /\ csched' = <<>> /\ cmon' = <<>>
            /\ cinit /\ endpoint /\ arg = "self" => AbortsNaming({"self-channel"})
            /\ cinit /\ fn = "Sender" /\ arg # "self" /\ <<fn, arg>> \in cends
                  => AbortsNaming({"duplicate Sender"})
            /\ cinit /\ fn = "Receiver" /\ arg # "self" /\ <<fn, arg>> \in cends
                  => AbortsNaming({"duplicate Receiver"})
    ]_vars

\* the same without the two cases in which the code departs: an endpoint made
\* before init in a process whose LISTENER_FD is no listener, and the wording
\* of the duplicate Receiver, which is the duplicate Sender's
C19_DiagnosticsOfTheCode ==
    [][clast'.n # clast.n =>
        LET fn == clast'.fn
            arg == clast'.arg
            endpoint == fn \in {"Sender", "Receiver"}
        IN  /\ ~cinit /\ endpoint /\ arg # "self" /\ clistener
                  => AbortsNaming({"missing init"})
            /\ ~cinit /\ endpoint /\ ~clistener
                  => cstate' = "aborted" /\ cdiag' = DiagNoListener
            /\ ~cinit /\ fn = "resources" => AbortsNaming({"missing init"})
            /\ ~cinit /\ fn = "spawn" /\ arg = "check"
                  => /\ AbortsNaming({"missing init"})
                     /\ cforks' = 0 /\ csched' = <<>> /\ cmon' = <<>>
            /\ clistener /\ endpoint /\ arg = "self" => AbortsNaming({"self-channel"})
            /\ cinit /\ endpoint /\ arg # "self" /\ <<fn, arg>> \in cends
                  => AbortsNaming({"duplicate Sender"})
    ]_vars

C19_Witness ==
    /\ cstate = "aborted"
    /\ cinit
    /\ clast.fn = "Receiver"
    /\ <<"Receiver", clast.arg>> \in cends
    /\ cdiag = DiagDupReceiver


(* C20: the spawn calls of the threads of one process are serialized by the  *)
(* SCHEDULER mutex: at most one thread at a time is between the start of the *)
(* fork or of the request to the scheduler and the write of its Spawn event, *)
(* that thread holds the mutex, and what two spawn calls write is never      *)
(* interleaved, neither on SCHEDULER_FD nor on MONITOR_FD.                   *)
InSpawn(t) == tpc[t] # "idle"

Contiguous(log) ==
    \A a, b \in DOMAIN log :
        a < b /\ log[a].call = log[b].call
            => \A m \in a .. b : log[m].call = log[a].call

PartsOf(log, call) == SelectSeq(log, LAMBDA e : e.call = call)

C20_SpawnsSerialized ==
    /\ \A t, u \in Threads : InSpawn(t) /\ InSpawn(u) => t = u
    /\ \A t \in Threads : InSpawn(t) => cmutex = t
    /\ Contiguous(csched)
    /\ Contiguous(cmon)
    /\ \A e \in {csched[k] : k \in DOMAIN csched} :
          LET parts == PartsOf(csched, e.call)
          IN  \A k \in DOMAIN parts : parts[k].part = RequestParts[k]
    /\ \A e \in {cmon[k] : k \in DOMAIN cmon} :
          LET parts == PartsOf(cmon, e.call)
          IN  \A k \in DOMAIN parts : parts[k].part = <<"variant", "pid">>[k]

\* a second thread is in spawn after another thread's spawn wrote its request
\* and its event
C20_Witness ==
    \E t, u \in Threads :
        /\ t # u
        /\ tpc[t] = "binary"
        /\ tpc[u] = "idle"
        /\ \E k \in DOMAIN cmon : cmon[k].thread = u /\ cmon[k].part = "pid"
        /\ \E k \in DOMAIN csched : csched[k].thread = u /\ csched[k].part = "arg"


(* C21: natively, spawn returns Some(new_pid) only after the parent wrote    *)
(* the event Spawn(new_pid) to its monitor; new_pid is the loopback address  *)
(* with the port of the listener handed to the child; and one Spawn event,   *)
(* no more, is written for a spawn that returned a pid.                      *)
SpawnEventsOf(call) == SelectSeq(cmon, LAMBDA e : e.call = call /\ e.part = "pid")

KidsOf(call) == SelectSeq(ckids, LAMBDA k : k.call = call)

C21_ReturnsAfterSpawnWritten ==
    ~cdeployed =>
        \A r \in {crets[k] : k \in DOMAIN crets} :
            /\ SpawnEventsOf(r.call) = <<[thread |-> r.thread, call |-> r.call,
                                          part |-> "pid", pid |-> r.pid]>>
            /\ Len(KidsOf(r.call)) = 1
            /\ r.pid = [ip |-> "127.0.0.1", port |-> KidsOf(r.call)[1].port]

C21_Witness ==
    /\ ~cdeployed
    /\ Len(crets) = 2
    /\ crets[1].thread # crets[2].thread
    /\ crets[1].pid # crets[2].pid


(* C22: for each of standard output and standard error of the process, the   *)
(* monitor sends the bytes it reads as non-empty Output(fd, bytes) events in *)
(* the order read, none lost and none twice, and at end of file one          *)
(* Output(fd, empty) event, which is the last Output event for that fd.      *)
OutputsOf(s, fd) == SelectSeq(s, LAMBDA e : e[1] = "Output" /\ e[2] = fd)

RECURSIVE BytesOf(_)
BytesOf(outs) == IF outs = <<>> THEN <<>> ELSE Head(outs)[3] \o BytesOf(Tail(outs))

Ascending(bytes) == \A a, b \in DOMAIN bytes : a < b => bytes[a] < bytes[b]

\* the bytes written to fd of i so far, as far as they were read and sent or
\* wait in the pipe
StreamOf(i, fd) == BytesOf(OutputsOf(msent[i], fd)) \o upipe[i][fd]

C22_OutputInOrderThenEmpty ==
    /\ \A i \in Insts, fd \in OutFds :
          LET outs == OutputsOf(msent[i], fd)
          IN  /\ Ascending(StreamOf(i, fd))
              /\ \A k \in DOMAIN outs :
                    outs[k][3] = <<>> <=> k = Len(outs) /\ ufwd[i][fd] = "done"
              /\ ufwd[i][fd] = "done" =>
                    /\ outs # <<>>
                    /\ upipe[i][fd] = <<>>
    /\ LET all == UNION {{StreamOf(i, fd)[k] : k \in DOMAIN StreamOf(i, fd)} :
                           i \in Insts, fd \in OutFds}
       IN  all = 1 .. nOut

\* two bytes written to standard output went out in two events before the
\* empty one
C22_Witness ==
    /\ Len(OutputsOf(msent[1], 1)) = 3
    /\ OutputsOf(msent[1], 1)[3][3] = <<>>
    /\ ufwd[1][2] = "done"


(* C23: when the monitor receives Kill it sends SIGKILL to its child, which  *)
(* ends the child if it still runs; if the child has ended already the Kill  *)
(* passes without a panic of the monitor; either way the monitor afterwards  *)
(* sends the Exit event of the child and terminates.                         *)
ExitSent(i) == \E k \in DOMAIN msent[i] : msent[i][k][1] = "Exit"

C23_KillEndsChildThenExit ==
    /\ [][\A i \in Insts :
            ~mkilled[i] /\ mkilled'[i] =>
                /\ uproc'[i] = "exited"
                /\ uproc[i] = "running" => ustatus'[i] = <<"Signaled", 9>>
                /\ uproc[i] = "exited" => ustatus'[i] = ustatus[i]
                /\ relay'[i] = "ended"
                /\ mon'[i] = mon[i]]_vars
    /\ \A i \in Insts :
          mkilled[i] ~> (ExitSent(i) /\ mon[i] = "terminated")

\* the Kill came when the child had ended, and the monitor has sent Exit and
\* terminated
C23_Witness ==
    /\ mkilled[1]
    /\ ustatus[1] = <<"Exited", 1>>
    /\ ExitSent(1)
    /\ mon[1] = "terminated"


(* C24: whatever Input(stdin, bytes) events the monitor receives from the    *)
(* bridge, the bytes of the non-empty ones are written to the standard input *)
(* of the child in the order received; the first empty Input closes that     *)
(* standard input; and the monitor keeps running whatever Input arrives      *)
(* afterwards: none of its threads panics and it does not abort.             *)
RECURSIVE UntilClose(_)
UntilClose(events) ==
    IF events = <<>> \/ Head(events) = KillEvent \/ Head(events)[3] = <<>>
    THEN <<>>
    ELSE Head(events)[3] \o UntilClose(Tail(events))

Starts(a, b) == Len(a) <= Len(b) /\ a = SubSeq(b, 1, Len(a))

\* the events of bsent[i] the monitor has received
Handled(i) == SubSeq(bsent[i], 1, Len(bsent[i]) - Len(binq[i]))

ClosedByInput(i) ==
    \E k \in DOMAIN Handled(i) :
        /\ Handled(i)[k] = InputEvent(0, <<>>)
        /\ \A m \in 1 .. k - 1 : Handled(i)[m] # KillEvent

StdinInOrder(i) ==
    /\ Starts(ustdin[i], UntilClose(bsent[i]))
    /\ ClosedByInput(i) /\ spending[i] = NoInput => stdinT[i] = "ended"
    /\ ClosedByInput(i) /\ spending[i] = NoInput /\ uproc[i] = "running"
          => ustdin[i] = UntilClose(bsent[i])

C24_InputInOrderAndMonitorRuns ==
    \A i \in Insts :
        /\ StdinInOrder(i)
        /\ relay[i] # "panicked"
        /\ mon[i] # "aborted"

\* what holds: order and close as claimed, and a panic only on an Input that
\* arrives when the thread of the standard input has ended
C24_InputInOrderUntilClosed ==
    \A i \in Insts :
        /\ StdinInOrder(i)
        /\ relay[i] = "panicked" =>
              /\ stdinT[i] = "ended"
              /\ Handled(i)[Len(Handled(i))][1] = "Input"
        /\ mon[i] = "aborted" => relay[i] = "panicked" /\ mbuild = "abort"

\* an Input after the closing one, the child still running: the thread
\* monitor-bridge-to-channel has panicked
C24_Witness ==
    /\ bsent[1] = <<InputEvent(0, <<>>), InputEvent(0, <<2>>)>>
    /\ relay[1] = "panicked"
    /\ uproc[1] = "running"
    /\ mbuild = "unwind"


(* C25: after the fork in monitor_process the user process stays blocked on  *)
(* the readiness pipe, and neither installs its standard streams, nor starts *)
(* its reactor, nor returns from init, until the monitor has started its     *)
(* reactor, made its Sender and Receiver to the bridge and closed its write  *)
(* end of the pipe; and once the monitor has done so the user process is     *)
(* always released in the end.                                               *)
MonitorReady ==
    /\ MonitorDid("reactor")
    /\ MonitorDid("endpoints")
    /\ MonitorDid("close_writer")

C25_ReleasedOnlyWhenMonitorReady ==
    /\ [](\A step \in {"read_ready", "move_monitor_fd", "move_stdout", "move_stderr",
                       "move_stdin", "reactor", "return", "start"} :
             UserDid(step) => MonitorReady)
    /\ [](~MonitorReady => upc <= 2)
    /\ MonitorReady ~> UserDid("read_ready")

\* the user process has run through init after waiting for the monitor
C25_Witness ==
    /\ MonitorReady
    /\ UserDid("return")
    /\ ~rmode.deployed


(* C26: a process tree has one bridge: only the init of the native root,     *)
(* which inherits no bridge pid, forks a bridge; every spawned process, at   *)
(* any depth, takes its bridge pid from the payload of spawn and forks none, *)
(* so every process of the tree holds the bridge pid the root holds.         *)
Initialised(i) == sstage[i] \in {"main", "start", "exited"}

C26_OneBridgePerTree ==
    /\ \A f \in sforks : f.proc = 1 /\ ~sdeployed
    /\ Cardinality(sforks) <= 1
    /\ Initialised(1) =>
          /\ sdeployed => sforks = {} /\ sbridge[1] = BridgePid
          /\ ~sdeployed => sforks = {[proc |-> 1, pid |-> sbridge[1]]}
    /\ \A i \in Insts : Initialised(i) => sbridge[i] = sbridge[1]

\* natively, a process spawned by a spawned process holds the root's bridge
C26_Witness ==
    /\ ~sdeployed
    /\ \E k \in DOMAIN scalls : scalls[k].caller = 2 /\ scalls[k].child = 3
    /\ Initialised(3)
    /\ sbridge[3] = NativeBridge(1)


(* C27: in a monitor, every inbound socket whose peer address is not the     *)
(* bridge's is handed to the socket forwardee, and every inbound socket      *)
(* whose peer address is the bridge's is kept by the monitor: no connection  *)
(* of the bridge is forwarded and no connection of another peer is kept.     *)
SocketsIn(s) == {s[k] : k \in DOMAIN s}

C27_OnlyBridgeKept ==
    /\ \A socket \in SocketsIn(fkept) : socket.from = MonitorBridge
    /\ \A socket \in SocketsIn(fgiven) : socket.from # MonitorBridge

\* as amended: the peer address decides where getpeername gives it; a socket
\* for which getpeername fails is kept
C27_KeptIfBridgeOrUnnamed ==
    /\ [](\A socket \in SocketsIn(fkept) :
            socket.from = MonitorBridge \/ socket.reset)
    /\ [](\A socket \in SocketsIn(fgiven) :
            socket.from # MonitorBridge /\ ~socket.reset)
    /\ [][\A from \in Peers, reset \in BOOLEAN :
            MonitorAccept(from, reset) =>
                \/ fkept' = Append(fkept, [from |-> from, reset |-> reset])
                \/ fgiven' = Append(fgiven, [from |-> from, reset |-> reset])]_vars

\* the monitor has kept the bridge's socket and one whose peer had reset, and
\* has handed on another
C27_Witness ==
    /\ fkept = <<[from |-> MonitorBridge, reset |-> FALSE], [from |-> PidOf(2), reset |-> TRUE]>>
    /\ fgiven = <<[from |-> PidOf(3), reset |-> FALSE]>>


(* C29: every operation the child of spawn_native performs between the fork  *)
(* and execve is one of close, dup, sigaction and exec; the child allocates  *)
(* no memory and takes no lock there.                                        *)
AsyncSignalSafe == {"close", "dup", "sigaction", "execve"}

ChildOps == {kops[k] : k \in DOMAIN kops}

\* (the test for valgrind, which is no call into the system, aside)
C29_ChildOnlyAsyncSignalSafe ==
    \A op \in ChildOps \ {"is_valgrind"} : op \in AsyncSignalSafe /\ ~Allocates(op)

\* what the child does: besides those four it asks whether valgrind runs it
\* and reads the directory of its descriptors, which it opens: one opendir,
\* before the first close, on every way to execve
C29_ChildReadsDescriptorDirectory ==
    /\ ~kvalgrind => ChildOps \subseteq AsyncSignalSafe
                        \cup {"is_valgrind", "opendir", "readdir", "closedir"}
    /\ \A k \in DOMAIN kops : kops[k] = "close" =>
          \E j \in 1 .. k - 1 : kops[j] = "opendir"
    /\ Cardinality({k \in DOMAIN kops : kops[k] = "opendir"}) <= 1
    /\ kpc = "execve" => "opendir" \in ChildOps

C29_Witness ==
    /\ kpc = "execve"
    /\ \E k \in DOMAIN kops : Allocates(kops[k]) /\ kops[k + 1] = "readdir"

(* C30: in the child of a native spawn, immediately before execve,           *)
(* LISTENER_FD refers to the new listener, ARG_FD to the payload file at     *)
(* offset 0, descriptors 0..2 are as they were and every other descriptor is *)
(* closed, whatever numbers the listener and the payload file had in the     *)
(* parent.                                                                   *)
C30_DescriptorsBeforeExecve ==
    kpc = "exec" /\ ~kvalgrind =>
        /\ kfds[LISTENER_FD] = "new listener"
        /\ kfds[ARG_FD] = "payload"
        /\ koff = 0
        /\ \A fd \in 0 .. 2 : kfds[fd] = kparent[fd]
        /\ \A fd \in Fds \ (0 .. ARG_FD) : kfds[fd] = "closed"

\* the payload file was allocated below the listener, a file of the user's
\* was open above both
C30_Witness ==
    /\ kpc = "exec" /\ ~kvalgrind
    /\ karg < klistener
    /\ \E fd \in Fds : fd > klistener /\ kparent[fd] = "file"
    /\ "dup" \in ChildOps


(* C31: write(buf) on &Sender<u8> returns Ok(0) and sends nothing for an     *)
(* empty buf; for a non-empty buf it sends buf[0], then the following bytes  *)
(* only while a non-blocking send is possible at once, and returns Ok(n),    *)
(* 1 <= n <= buf.len(), where exactly the first n bytes of buf have been     *)
(* sent, in order.  (room: how many non-blocking sends are possible.)        *)
C31_WriteSendsPrefix ==
    [][\A buf \in Bufs, room \in 0 .. MaxBuf - 1 :
        Write(buf, room) =>
            LET n == bret'.n
            IN  /\ bret'.op = "write" /\ bret'.err = "none"
                /\ buf = <<>> => n = 0 /\ bq' = bq
                /\ buf # <<>> =>
                      /\ 1 <= n /\ n <= Len(buf)
                      /\ n - 1 <= room
                      /\ n < Len(buf) => n - 1 = room
                      /\ bend = "open" => bq' = bq \o SubSeq(buf, 1, n)]_vars

\* a write has sent two bytes to a receiver that has read one of them
C31_Witness ==
    /\ bret = Ret("write", "none", 2)
    /\ bend = "open"
    /\ bread = <<1>>
    /\ bq = <<0, 1>>
    /\ bwritten = <<1, 0, 1>>

(* C32: read(buf) on &Receiver<u8> with a non-empty buf returns an error     *)
(* only when no byte was received in that call, UnexpectedEof for            *)
(* ChannelError::Exited and ConnectionReset for ChannelError::Error; when the *)
(* channel's end is met after a byte was received in the call it returns Ok  *)
(* with the number of bytes received, and the following read reports the end. *)
EndMet == bend \in {"exited", "error"} /\ bq = <<>>

C32_ReadReportsEndWhenEmpty ==
    /\ [][\A len \in 1 .. MaxBuf, arrived \in 0 .. MaxStream :
            Read(len, arrived) =>
                /\ bret'.op = "read"
                /\ bret'.err # "none" <=> bq = <<>>
                /\ bq = <<>> =>
                      /\ bread' = bread /\ bret'.n = 0
                      /\ bend = "exited" => bret'.err = "UnexpectedEof"
                      /\ bend = "error" => bret'.err = "ConnectionReset"
                /\ bq # <<>> =>
                      /\ 1 <= bret'.n /\ bret'.n <= len
                      /\ bread' = bread \o SubSeq(bq, 1, bret'.n)
                      /\ bq' = SubSeq(bq, bret'.n + 1, Len(bq))]_vars
    /\ [][EndMet => EndMet' /\ bend' = bend]_vars
    /\ [](EndMet => \A len \in 1 .. MaxBuf : ENABLED Read(len, 0))

\* a read has returned the last two bytes of a sender that was killed, and
\* the read after it ConnectionReset
C32_Witness ==
    /\ bend = "error"
    /\ bread = <<0, 1>>
    /\ bwritten = <<0, 1, 1>>
    /\ bret = Ret("read", "ConnectionReset", 0)


(* C33: every DeployOutputEvent the bridge writes carries the pid of the     *)
(* process whose monitor sent the event it is made of, for a Spawn as the    *)
(* parent: the entry select points at is the entry of the channel the event  *)
(* came from, whatever has been added to the list and removed from it, and   *)
(* every entry of the list stands for one monitor that has sent no Exit the  *)
(* bridge has handled.                                                       *)
C33_EventCarriesSenderPid ==
    /\ [][\A p \in Ports :
            Received(p) /\ bridge' = "running" =>
                LET e == bout'[Len(bout')]
                    first == Head(mq[p])
                IN  /\ Len(bout') = Len(bout) + 1
                    /\ e.event[1] = first[1]
                    /\ e.event[2] = p
                    /\ e.from = InstOf(p)
                    /\ first[1] = "Spawn" => e.event[3] = first[2]]_vars
    /\ [](\A k \in 1 .. Len(processes) :
            Cardinality({i \in Insts : uport[i] = processes[k]
                                        /\ mon[i] \in {"running", "exit_sent"}}) = 1)
    /\ [](\A n \in 1 .. Len(bout) : bout[n].event[2] = uport[bout[n].from])

\* the first process has exited and left the list, and the bridge has then
\* written an Output of the second, which stands first in the list now
C33_Witness ==
    /\ Len(bout) >= 3
    /\ \E n \in 1 .. Len(bout) - 1 :
          /\ bout[n].from = 1 /\ bout[n].event[1] = "Exit"
          /\ bout[Len(bout)].from = 2
          /\ bout[Len(bout)].event[1] = "Output"
          /\ bout[Len(bout)].event[2] = uport[2]
    /\ processes = <<uport[2]>>



(* C34: in the bridge's output every event whose source is a spawned         *)
(* process (an Output, an Exit, or a Spawn with it as parent) comes after    *)
(* the Spawn event that announced that process: the bridge reports nothing   *)
(* from a process it has not been told of.                                   *)
C34_SpawnAnnouncedFirst ==
    \A n \in 1 .. Len(bout) :
        bout[n].from # 1 =>
            \E m \in 1 .. n - 1 :
                /\ bout[m].event[1] = "Spawn"
                /\ bout[m].event[3] = bout[n].event[2]
                /\ bout[m].event[3] = uport[bout[n].from]

\* the second process has sent its events and ended, the Spawn that announces
\* it has left the pipe of the first, and the bridge has written that Spawn
\* and then an event of the second
C34_Witness ==
    /\ Len(bout) >= 2
    /\ bout[Len(bout)].from = 2
    /\ \E m \in 1 .. Len(bout) - 1 : bout[m].event[1] = "Spawn"
    /\ Len(msent[2]) >= 2
    /\ monpipe[1] = <<>>
    /\ uproc[2] = "exited"


(* C35: the pids in the bridge's list are pairwise distinct at every moment, *)
(* whatever the order of the Spawn and Exit events of the monitors, a new    *)
(* process being given the address of one that has exited included; so the   *)
(* bridge never meets the duplicate-endpoint abort when it makes the Sender  *)
(* and the Receiver for a Spawn event.                                       *)
C35_ListedPidsDistinct ==
    /\ [](\A j, k \in 1 .. Len(processes) : processes[j] = processes[k] => j = k)
    /\ [](bridge # "panicked")
    /\ [][\A k \in 1 .. MaxInsts :
            BridgeEvent(k) /\ Head(mq[processes[k]])[1] = "Spawn" =>
                /\ ~InList(Head(mq[processes[k]])[2])
                /\ processes' = Append(processes, Head(mq[processes[k]])[2])]_vars

\* the bridge lists a process that has the address of one whose monitor has
\* terminated
C35_Witness ==
    \E i, j \in Insts :
        /\ i # j
        /\ uport[i] = uport[j]
        /\ mon[i] = "terminated"
        /\ mon[j] = "running"
        /\ InList(uport[j])
        /\ Len(processes) = 2


\* no user process of the tree runs, and none can be spawned any more
UsersEnded == \A i \in Insts : uproc[i] # "running"

C37_TotalAndExact ==
    presult # NotCalled =>
        /\ presult[1] \in {"Ok", "Err"}
        /\ (presult[1] = "Ok" /\ DigitsAndUnit(pinput)) => presult[2] = SizeOf(pinput)

\* the product of the integer part and the factor of the suffix is 2^64 or more
ProductOverflows(input) ==
    /\ SuffixPart(input) \in UnitSuffixes
    /\ ~FitsU64(MulPow1024(DecimalValue(IntegerPart(input)), PowerOf(SuffixPart(input))))

\* what the function does instead: it returns Err for the empty input only
\* of those; it panics on an input that starts with no digit and on an
\* integer part of 2^64 or more; on a product of 2^64 or more it panics or
\* returns the product modulo 2^64, as the build has it; and it panics in no
\* case but these and that of a fraction other than zero before a unit
C37_PanicsOrWraps ==
    presult # NotCalled =>
        LET a == DecimalValue(IntegerPart(pinput))
        IN  /\ pinput = <<>> => presult = ParseErr
            /\ (pinput # <<>> /\ (IntegerPart(pinput) = <<>> \/ ~FitsU64(a)))
                  => presult = ParsePanic("unwrap")
            /\ (DigitsAndUnit(pinput) /\ FitsU64(a) /\ ProductOverflows(pinput))
                  => presult \in {ParsePanic("attempt to multiply with overflow"),
                                  ParseOk(WrapU64(SizeOf(pinput)))}
            /\ presult[1] = "panic" =>
                  \/ IntegerPart(pinput) = <<>>
                  \/ ~FitsU64(a)
                  \/ ProductOverflows(pinput)
                  \/ /\ FractionAndUnit(pinput)
                     /\ \E n \in 1 .. Len(FractionDigits(pinput)) :
                           FractionDigits(pinput)[n] # "0"

\* "16EiB" has given Ok(0)
C37_Witness ==
    /\ pinput = <<"1", "6", "E", "i", "B">>
    /\ presult = ParseOk(<<>>)


(* C38: get on the reservoir Rand returns None if and only if push was never *)
(* called, and after one push or more it returns Some(x) with x one of the   *)
(* items pushed: the first push is always kept, each later push replaces the *)
(* item kept or leaves it; so a choice among a set of ready tokens that is   *)
(* not empty gives exactly one of them.                                      *)
C38_ReservoirKeepsPushedItem ==
    /\ [](rgot # <<>> =>
            /\ rgot[1] = 0 <=> rpushed = <<>>
            /\ rpushed # <<>> => \E n \in 1 .. Len(rpushed) : rgot[1] = rpushed[n])
    /\ [](rand.count = Len(rpushed))
    /\ [](Len(rpushed) = 1 => rand.res = rpushed[1])
    /\ [][Len(rpushed') = Len(rpushed) + 1 =>
            rand'.res \in {rand.res, rpushed'[Len(rpushed')]}]_vars
    /\ [](\A tokens \in {<<1, 2, 3>>}, ready \in SUBSET {1, 2, 3} :
            /\ ready # {} => ChannelSelect(tokens, ready) # {}
            /\ \A o \in ChannelSelect(tokens, ready) :
                  /\ tokens[o.committed] \in ready
                  /\ Len(o.rest) = Len(tokens) - 1)

\* of three items pushed the second was kept and get has returned it
C38_Witness ==
    /\ rpushed = <<1, 3, 2>>
    /\ rgot = <<3>>

=============================================================================
